---- MODULE Spec2Model ----
(***************************************************************************)
(* A model of the pcap analyzer (cmd/pcap-analyzer/main.go): the ingestion *)
(* loop that hands TCP segments to the gopacket reassembler, the stream    *)
(* object whose bytes.Buffer receives the reassembled bytes, and the       *)
(* parser goroutine (HTTPStream.run) that reads that buffer through a      *)
(* bufio.Reader and emits HTTP requests and responses.                     *)
(*                                                                         *)
(* Byte strings are run-length encoded: a sequence of runs [c, n], c one   *)
(* byte and n >= 1 its repetition count, adjacent runs of different bytes. *)
(* This keeps the program's real sizes (a 4096-byte bufio buffer, a 1 MiB  *)
(* body slice, a 2000000-byte body) within reach of the model checker.     *)
(***************************************************************************)
EXTENDS Integers, Sequences, FiniteSets, TLC

\* ------------------------------------------------------------------ bytes

CR == "\r"
LF == "\n"
SP == " "
TAB == "\t"
NUL == "NUL"
TlsHandshake == "0x16"
TlsMajor == "0x03"
TlsMinor == "0x01"

Digits == <<"0", "1", "2", "3", "4", "5", "6", "7", "8", "9">>
DigitSet == {Digits[k] : k \in 1..10}
DigitVal(c) == (CHOOSE k \in 1..10 : Digits[k] = c) - 1

Uppers == <<"A", "B", "C", "D", "E", "F", "G", "H", "I", "J", "K", "L", "M",
            "N", "O", "P", "Q", "R", "S", "T", "U", "V", "W", "X", "Y", "Z">>
Lowers == <<"a", "b", "c", "d", "e", "f", "g", "h", "i", "j", "k", "l", "m",
            "n", "o", "p", "q", "r", "s", "t", "u", "v", "w", "x", "y", "z">>
UpperSet == {Uppers[k] : k \in 1..26}
LowerSet == {Lowers[k] : k \in 1..26}
ToLower(c) == IF c \in UpperSet THEN Lowers[CHOOSE k \in 1..26 : Uppers[k] = c] ELSE c

\* The token bytes of net/http (method names, header names) that the modelled streams use.
TokenBytes == UpperSet \cup LowerSet \cup DigitSet \cup {"-", "_", "."}
\* Bytes no request target and no header value may contain.
CtlBytes == {NUL, CR, LF, TlsHandshake, TlsMajor, TlsMinor}

\* ------------------------------------------------- run-length byte strings

Run(c, n) == IF n <= 0 THEN <<>> ELSE <<[c |-> c, n |-> n]>>

\* F applied to arguments that are evaluated once, as the elements of
\* one-element sets.
Bind1(F(_), a) == CHOOSE r \in {F(x) : x \in {a}} : TRUE
Bind2(F(_, _), a, b) == CHOOSE r \in {F(x, y) : x \in {a}, y \in {b}} : TRUE
Bind3(F(_, _, _), a, b, c) ==
  CHOOSE r \in {F(x, y, z) : x \in {a}, y \in {b}, z \in {c}} : TRUE
Bind4(F(_, _, _, _), a, b, c, d) ==
  CHOOSE r \in {F(x, y, z, w) : x \in {a}, y \in {b}, z \in {c}, w \in {d}} : TRUE

\* (The operators on byte strings halve their argument, so that strings of
\* a few hundred runs are evaluated at a shallow recursion depth, and bind
\* their arguments as the elements of one-element sets, so that each is
\* evaluated once, inside ENABLED too.)
RECURSIVE BLen(_)
BLen(s0) ==
  CHOOSE r \in {IF s = <<>> THEN 0
                ELSE IF Len(s) = 1 THEN s[1].n
                ELSE BLen(SubSeq(s, 1, Len(s) \div 2))
                     + BLen(SubSeq(s, (Len(s) \div 2) + 1, Len(s))) : s \in {s0}} : TRUE

Cat(a0, b0) ==
  CHOOSE r \in {(
        IF a = <<>> THEN b
        ELSE IF b = <<>> THEN a
        ELSE IF a[Len(a)].c = b[1].c
             THEN SubSeq(a, 1, Len(a) - 1) \o <<[c |-> b[1].c, n |-> a[Len(a)].n + b[1].n]>> \o Tail(b)
             ELSE a \o b
    ) : a \in {a0}, b \in {b0}} : TRUE

RECURSIVE S(_)
S(t) ==
  IF t = <<>> THEN <<>>
  ELSE IF Len(t) = 1 THEN Run(t[1], 1)
  ELSE Cat(S(SubSeq(t, 1, Len(t) \div 2)), S(SubSeq(t, (Len(t) \div 2) + 1, Len(t))))

RECURSIVE Take(_, _)
Take(s0, k0) ==
  CHOOSE r \in
    {IF k <= 0 \/ s = <<>> THEN <<>>
     ELSE IF Len(s) = 1 THEN <<[c |-> s[1].c, n |-> IF s[1].n >= k THEN k ELSE s[1].n]>>
     ELSE CHOOSE q \in
            {IF k <= n THEN Take(a, k) ELSE a \o Take(b, k - n) :
               n \in {BLen(SubSeq(s, 1, Len(s) \div 2))},
               a \in {SubSeq(s, 1, Len(s) \div 2)},
               b \in {SubSeq(s, (Len(s) \div 2) + 1, Len(s))}} : TRUE :
       s \in {s0}, k \in {k0}} : TRUE

RECURSIVE Drop(_, _)
Drop(s0, k0) ==
  CHOOSE r \in
    {IF k <= 0 \/ s = <<>> THEN s
     ELSE IF Len(s) = 1 THEN Run(s[1].c, s[1].n - k)
     ELSE CHOOSE q \in
            {IF k < n THEN Drop(a, k) \o b ELSE Drop(b, k - n) :
               n \in {BLen(SubSeq(s, 1, Len(s) \div 2))},
               a \in {SubSeq(s, 1, Len(s) \div 2)},
               b \in {SubSeq(s, (Len(s) \div 2) + 1, Len(s))}} : TRUE :
       s \in {s0}, k \in {k0}} : TRUE

Slice(s, from, to) == Take(Drop(s, from), to - from)

\* Offset of the first byte c in s, -1 when there is none (bytes.IndexByte).
Index(s0, c0) ==
  CHOOSE r \in {(
        IF \A k \in 1..Len(s) : s[k].c # c THEN -1
        ELSE BLen(SubSeq(s, 1, (CHOOSE k \in 1..Len(s) : s[k].c = c /\ \A i \in 1..(k - 1) : s[i].c # c) - 1))
    ) : s \in {s0}, c \in {c0}} : TRUE

HasPrefix(s, p) == Take(s, BLen(p)) = p
AllIn(s0, set0) ==
  CHOOSE r \in {(
        \A k \in 1..Len(s) : s[k].c \in set
    ) : s \in {s0}, set \in {set0}} : TRUE
NoneIn(s0, set0) ==
  CHOOSE r \in {(
        \A k \in 1..Len(s) : s[k].c \notin set
    ) : s \in {s0}, set \in {set0}} : TRUE
IsPrefixOf(p, s) == Take(s, BLen(p)) = p
Min(a, b) == IF a <= b THEN a ELSE b
Max(a, b) == IF a >= b THEN a ELSE b

RECURSIVE Pow10(_)
Pow10(n) == IF n = 0 THEN 1 ELSE 10 * Pow10(n - 1)

\* strconv.ParseUint of a string of decimal digits.
RECURSIVE ParseUint(_, _)
ParseUint(s0, acc0) ==
  CHOOSE r \in {(
        IF s = <<>> THEN acc
        ELSE ParseUint(Tail(s), acc * Pow10(s[1].n) + DigitVal(s[1].c) * ((Pow10(s[1].n) - 1) \div 9))
    ) : s \in {s0}, acc \in {acc0}} : TRUE

RECURSIVE TrimLeftSpace(_)
TrimLeftSpace(s0) ==
  CHOOSE r \in {(
        IF s # <<>> /\ s[1].c \in {SP, TAB} THEN TrimLeftSpace(Tail(s)) ELSE s
    ) : s \in {s0}} : TRUE

RECURSIVE TrimRightSpace(_)
TrimRightSpace(s0) ==
  CHOOSE r \in {(
        IF s # <<>> /\ s[Len(s)].c \in {SP, TAB} THEN TrimRightSpace(SubSeq(s, 1, Len(s) - 1)) ELSE s
    ) : s \in {s0}} : TRUE

TrimString(s) == TrimRightSpace(TrimLeftSpace(s))
RECURSIVE LowerStr(_)
LowerStr(s0) ==
  CHOOSE r \in {(
        IF s = <<>> THEN <<>>
        ELSE Cat(LowerStr(SubSeq(s, 1, Len(s) - 1)), Run(ToLower(s[Len(s)].c), s[Len(s)].n))
    ) : s \in {s0}} : TRUE

\* strings.Cut(s, sep) for a one-byte separator.
Cut(s0, c0) ==
  CHOOSE r \in {(
        LET At(i) == IF i < 0 THEN [ok |-> FALSE, before |-> s, after |-> <<>>]
                     ELSE [ok |-> TRUE, before |-> Take(s, i), after |-> Drop(s, i + 1)]
        IN Bind1(At, Index(s, c))
    ) : s \in {s0}, c \in {c0}} : TRUE

\* bufio.Reader.ReadLine drops one trailing CR of the line it returns.
TrimCR(l0) ==
  CHOOSE r \in {(
        IF l # <<>> /\ l[Len(l)].c = CR THEN Take(l, BLen(l) - 1) ELSE l
    ) : l \in {l0}} : TRUE

ByteAt(s, k) == Slice(s, k, k + 1)[1].c

\* ------------------------------------------- net/http message framing
\* What http.ReadRequest and http.ReadResponse make of the bytes s that follow
\* the parser's position. st = "need": the bytes end before the message head
\* does, so the bufio.Reader has to fill; st = "err": the call fails having
\* consumed `used` bytes; st = "ok": the head is parsed and `used` bytes are
\* consumed. Chunked bodies and folded header lines do not occur in the
\* modelled streams.

HttpPrefix == S(<<"H", "T", "T", "P", "/">>)
NameHost == S(<<"h", "o", "s", "t">>)
NameContentLength == S(<<"c", "o", "n", "t", "e", "n", "t", "-", "l", "e", "n", "g", "t", "h">>)
NameConnection == S(<<"c", "o", "n", "n", "e", "c", "t", "i", "o", "n">>)
ValueClose == S(<<"c", "l", "o", "s", "e">>)
ValueKeepAlive == S(<<"k", "e", "e", "p", "-", "a", "l", "i", "v", "e">>)
ProtoHTTP10 == S(<<"H", "T", "T", "P", "/", "1", ".", "0">>)

NoMsg ==
  [st |-> "need", used |-> 0, kind |-> "none", method |-> <<>>, uri |-> <<>>,
   proto |-> <<>>, status |-> <<>>, host |-> <<>>, hdr |-> <<>>,
   bodyKind |-> "none", length |-> 0, closing |-> FALSE]

RECURSIVE HeaderGet(_, _)
HeaderGet(h0, name0) ==
  CHOOSE r \in {(
        IF h = <<>> THEN <<>>
        ELSE IF h[1].k = name THEN h[1].v ELSE HeaderGet(Tail(h), name)
    ) : h \in {h0}, name \in {name0}} : TRUE

HeaderHas(h0, name0) ==
  CHOOSE r \in {(
        \E k \in 1..Len(h) : h[k].k = name
    ) : h \in {h0}, name \in {name0}} : TRUE

ParseHTTPVersion(v0) ==
  CHOOSE r \in {(
        /\ BLen(v) = 8
        /\ Take(v, 5) = HttpPrefix
        /\ ByteAt(v, 5) \in DigitSet
        /\ ByteAt(v, 6) = "."
        /\ ByteAt(v, 7) \in DigitSet
    ) : v \in {v0}} : TRUE

ValidMethod(m) == m # <<>> /\ AllIn(m, TokenBytes)

\* url.ParseRequestURI for the origin-form and asterisk-form targets.
ValidRequestURI(u0) ==
  CHOOSE r \in {(
        /\ u # <<>>
        /\ NoneIn(u, CtlBytes \cup {SP})
        /\ (u[1].c = "/" \/ u = S(<<"*">>))
    ) : u \in {u0}} : TRUE

\* textproto.Reader.ReadMIMEHeader from offset `used` of s.
RECURSIVE ReadMIMEHeader(_, _, _)
ReadMIMEHeader(s0, used0, acc0) ==
  CHOOSE r \in {(
        LET Field(line, u2, kv) ==
              IF line = <<>> THEN [st |-> "ok", used |-> u2, hdr |-> acc]
              ELSE IF line[1].c \in {SP, TAB} \/ ~kv.ok \/ kv.before = <<>>
                      \/ ~AllIn(kv.before, TokenBytes) \/ ~NoneIn(kv.after, CtlBytes)
                   THEN [st |-> "err", used |-> u2, hdr |-> acc]
              ELSE IF BLen(s) = u2
                   \* the reader looks at the next byte for a folded line
                   THEN [st |-> "need", used |-> u2, hdr |-> acc]
              ELSE ReadMIMEHeader(s, u2,
                     Append(acc, [k |-> LowerStr(kv.before), v |-> TrimString(kv.after)]))
            Line(line, u2) == Bind3(Field, line, u2, Cut(line, ":"))
            At(rest, e) ==
              IF e < 0 THEN [st |-> "need", used |-> used, hdr |-> acc]
              ELSE Bind2(Line, TrimCR(Take(rest, e)), used + e + 1)
            From(rest) == Bind2(At, rest, Index(rest, LF))
        IN Bind1(From, Drop(s, used))
    ) : s \in {s0}, used \in {used0}, acc \in {acc0}} : TRUE

\* shouldClose: HTTP/1.0 without keep-alive, or Connection: close.
ShouldClose(proto0, hdr0) ==
  CHOOSE r \in {(
        \/ HeaderGet(hdr, NameConnection) = ValueClose
        \/ (proto = ProtoHTTP10 /\ HeaderGet(hdr, NameConnection) # ValueKeepAlive)
    ) : proto \in {proto0}, hdr \in {hdr0}} : TRUE

\* parseContentLength: -1 when the header is absent, -2 when it is malformed.
ContentLength(hdr0) ==
  CHOOSE r \in {(
        LET Of(v) == IF ~HeaderHas(hdr, NameContentLength) THEN -1
                     ELSE IF v = <<>> \/ ~AllIn(v, DigitSet) \/ BLen(v) > 18 THEN -2
                     ELSE ParseUint(v, 0)
        IN Bind1(Of, HeaderGet(hdr, NameContentLength))
    ) : hdr \in {hdr0}} : TRUE

\* bodyAllowedForStatus: no body for 1xx, 204 and 304.
BodyAllowedForStatus(code0) ==
  CHOOSE r \in {(
        ~(code[1].c = "1" \/ code = S(<<"2", "0", "4">>) \/ code = S(<<"3", "0", "4">>))
    ) : code \in {code0}} : TRUE

\* readTransfer: how the body of the message is framed.
ReadTransfer(m0) ==
  CHOOSE r \in {(
        LET Framed(cl, close) ==
              IF cl = -2 THEN [m EXCEPT !.st = "err"]
              ELSE IF m.kind = "response" /\ ~BodyAllowedForStatus(Take(m.status, 3))
                   THEN [m EXCEPT !.bodyKind = "none", !.length = 0, !.closing = close]
              ELSE IF cl > 0
                   THEN [m EXCEPT !.bodyKind = "limited", !.length = cl, !.closing = close]
              ELSE IF cl = 0 \/ m.kind = "request"
                   THEN [m EXCEPT !.bodyKind = "none", !.length = 0, !.closing = close]
              \* a response with no Content-Length: the body runs to the end of the data
              ELSE [m EXCEPT !.bodyKind = "untilEOF", !.length = -1, !.closing = TRUE]
        IN Bind2(Framed, ContentLength(m.hdr), ShouldClose(m.proto, m.hdr))
    ) : m \in {m0}} : TRUE

ReadHead(s0, used0, m0) ==
  CHOOSE r \in {(
        LET Of(h) ==
              IF h.st # "ok" THEN [NoMsg EXCEPT !.st = h.st, !.used = h.used, !.kind = m.kind]
              ELSE ReadTransfer([m EXCEPT !.st = "ok", !.used = h.used, !.hdr = h.hdr,
                                          !.host = HeaderGet(h.hdr, NameHost)])
        IN Bind1(Of, ReadMIMEHeader(s, used, <<>>))
    ) : s \in {s0}, used \in {used0}, m \in {m0}} : TRUE

ReadRequest(s0) ==
  CHOOSE r \in {(
        LET Parts(e, c1, c2) ==
              IF ~c1.ok \/ ~c2.ok \/ ~ValidMethod(c1.before)
                 \/ ~ParseHTTPVersion(c2.after) \/ ~ValidRequestURI(c2.before)
                THEN [NoMsg EXCEPT !.st = "err", !.used = e + 1, !.kind = "request"]
              ELSE ReadHead(s, e + 1, [NoMsg EXCEPT !.kind = "request", !.method = c1.before,
                                                    !.uri = c2.before, !.proto = c2.after])
            Words(e, c1) == Bind3(Parts, e, c1, Cut(c1.after, SP))
            Line(e) ==
              IF e < 0 THEN [NoMsg EXCEPT !.kind = "request"]
              ELSE Bind2(Words, e, Cut(TrimCR(Take(s, e)), SP))
        IN Bind1(Line, Index(s, LF))
    ) : s \in {s0}} : TRUE

ReadResponse(s0) ==
  CHOOSE r \in {(
        LET Parts(e, c1, status, code) ==
              IF ~c1.ok \/ BLen(code) # 3 \/ ~AllIn(code, DigitSet) \/ ~ParseHTTPVersion(c1.before)
                THEN [NoMsg EXCEPT !.st = "err", !.used = e + 1, !.kind = "response"]
              ELSE ReadHead(s, e + 1, [NoMsg EXCEPT !.kind = "response", !.proto = c1.before,
                                                    !.status = status])
            Status(e, c1, status) == Bind4(Parts, e, c1, status, Cut(status, SP).before)
            Words(e, c1) == Bind3(Status, e, c1, TrimLeftSpace(c1.after))
            Line(e) ==
              IF e < 0 THEN [NoMsg EXCEPT !.kind = "response"]
              ELSE Bind2(Words, e, Cut(TrimCR(Take(s, e)), SP))
        IN Bind1(Line, Index(s, LF))
    ) : s \in {s0}} : TRUE

\* ------------------------------------------------------------ gzip
\* decompressGzip: gzip.NewReader over the body, then io.ReadAll. A gzip
\* member is a 10-byte header (0x1f 0x8b, method 8, flags, mtime, xfl, os), a
\* deflate stream and an 8-byte trailer (CRC-32 and length of the plain data,
\* little-endian); members may follow one another. The deflate streams of the
\* captures are stored blocks (block header 0x01 or 0x00, LEN, its complement
\* NLEN, the bytes); the CRC-32 is abstracted to a one-byte checksum of the
\* plain data's length and run structure. Bytes that are not printable are
\* named by their value.

HexDigits == <<"0", "1", "2", "3", "4", "5", "6", "7", "8", "9", "a", "b", "c", "d", "e", "f">>
ByteName(n) == IF n = 0 THEN NUL ELSE "0x" \o HexDigits[(n \div 16) + 1] \o HexDigits[(n % 16) + 1]
ByteVal(c0) ==
  CHOOSE r \in {(
        IF \E n \in 0..255 : ByteName(n) = c THEN CHOOSE n \in 0..255 : ByteName(n) = c ELSE -1
    ) : c \in {c0}} : TRUE

GzipID1 == ByteName(31)
GzipID2 == ByteName(139)
GzipDeflate == ByteName(8)
GzipOsUnknown == ByteName(255)
GzipHeaderLen == 10
GzipTrailerLen == 8
StoredHeaderLen == 5

GzipHeader == Cat(S(<<GzipID1, GzipID2, GzipDeflate>>), Cat(Run(NUL, 6), Run(GzipOsUnknown, 1)))
Checksum(plain0) ==
  CHOOSE r \in {(
        ByteName(((BLen(plain) * 31 + Len(plain) * 7) % 251) + 1)
    ) : plain \in {plain0}} : TRUE
GzipTrailer(plain0) ==
  CHOOSE r \in {(
        Cat(Cat(Run(Checksum(plain), 1), Run(NUL, 3)), Cat(Run(ByteName(BLen(plain) % 256), 1), Run(NUL, 3)))
    ) : plain \in {plain0}} : TRUE

\* The encoder (what a server's gzip writer produces for fewer than 32 bytes).
StoredBlock(plain) ==
  Cat(S(<<ByteName(1), ByteName(BLen(plain)), NUL, ByteName(255 - BLen(plain)), ByteName(255)>>), plain)
Gzip(plain) == Cat(GzipHeader, Cat(StoredBlock(plain), GzipTrailer(plain)))

\* flate: the stored blocks of s up to the final one; used counts the bytes read.
RECURSIVE Inflate(_, _, _)
Inflate(s0, used0, acc0) ==
  CHOOSE r \in {(
        LET Block(final, len, nlen, from) ==
              IF final \notin {0, 1} \/ len < 0 \/ nlen # 65535 - len \/ BLen(s) < from + len
                THEN [ok |-> FALSE, used |-> used, data |-> acc]
              ELSE IF final = 1
                THEN [ok |-> TRUE, used |-> from + len, data |-> Cat(acc, Slice(s, from, from + len))]
              ELSE Inflate(s, from + len, Cat(acc, Slice(s, from, from + len)))
        IN IF BLen(s) < used + StoredHeaderLen THEN [ok |-> FALSE, used |-> used, data |-> acc]
           ELSE Bind4(Block, ByteVal(ByteAt(s, used)),
                      ByteVal(ByteAt(s, used + 1)) + 256 * ByteVal(ByteAt(s, used + 2)),
                      ByteVal(ByteAt(s, used + 3)) + 256 * ByteVal(ByteAt(s, used + 4)),
                      used + StoredHeaderLen)
    ) : s \in {s0}, used \in {used0}, acc \in {acc0}} : TRUE

\* gzip.Reader read to the end by io.ReadAll: every member, header and trailer checked.
RECURSIVE GzipReadAll(_, _)
GzipReadAll(s0, acc0) ==
  CHOOSE r \in {(
        LET Following(f, rest) ==
              IF rest = <<>> THEN [ok |-> TRUE, data |-> Cat(acc, f.data)]
              ELSE GzipReadAll(rest, Cat(acc, f.data))
            Member(f) ==
              IF ~f.ok \/ BLen(s) < f.used + GzipTrailerLen
                 \/ Slice(s, f.used, f.used + GzipTrailerLen) # GzipTrailer(f.data)
                THEN [ok |-> FALSE, data |-> acc]
              ELSE Bind2(Following, f, Drop(s, f.used + GzipTrailerLen))
        IN IF BLen(s) < GzipHeaderLen \/ Take(s, 4) # Take(GzipHeader, 4)
             THEN [ok |-> FALSE, data |-> acc]
           ELSE Bind1(Member, Inflate(s, GzipHeaderLen, <<>>))
    ) : s \in {s0}, acc \in {acc0}} : TRUE

decompressGzipIdentity(data) == [ok |-> TRUE, data |-> data]
decompressGzip(data) == GzipReadAll(data, <<>>)

NameContentEncoding ==
  S(<<"c", "o", "n", "t", "e", "n", "t", "-", "e", "n", "c", "o", "d", "i", "n", "g">>)
ValueGzip == S(<<"g", "z", "i", "p">>)

\* ------------------------------------------------------------ captures
\* The inputs: a capture is one TCP connection between a client A and a
\* server B (port sport), the bytes each endpoint sends (wire), and the
\* packets the capture file may hold. The packet source yields packets of
\* that set in any order, any of them any number of times (reordering and
\* retransmission), at most MaxPackets in all. A packet is a SYN or carries
\* the len bytes of its direction's wire from offset off (sequence numbers
\* are counted from the first data byte), with or without FIN.

ReqA ==
  S(<<
    "G", "E", "T", SP, "/", "a", "?", "x", "=", "1", SP, "H", "T", "T", "P", "/", "1",
    ".", "1", CR, LF, "H", "o", "s", "t", ":", SP, "e", "x", "a", "m", "p", "l", "e",
    ".", "c", "o", "m", CR, LF, CR, LF
  >>)

ReqShort ==
  S(<<
    "G", "E", "T", SP, "/", SP, "H", "T", "T", "P", "/", "1", ".", "1", CR, LF, "H",
    "o", "s", "t", ":", SP, "h", CR, LF, CR, LF
  >>)

BadLine ==
  S(<<
    "B", "A", "D", "L", "I", "N", "E", CR, LF
  >>)

BadStatus ==
  S(<<
    "H", "T", "T", "P", "/", "1", ".", "1", " ", "O", "K", CR, LF
  >>)

RespHello ==
  S(<<
    "H", "T", "T", "P", "/", "1", ".", "1", SP, "2", "0", "0", SP, "O", "K", CR, LF,
    "C", "o", "n", "t", "e", "n", "t", "-", "L", "e", "n", "g", "t", "h", ":", SP, "5",
    CR, LF, CR, LF, "h", "e", "l", "l", "o"
  >>)

RespHead5000 ==
  S(<<
    "H", "T", "T", "P", "/", "1", ".", "1", SP, "2", "0", "0", SP, "O", "K", CR, LF,
    "C", "o", "n", "t", "e", "n", "t", "-", "L", "e", "n", "g", "t", "h", ":", SP, "5",
    "0", "0", "0", CR, LF, CR, LF
  >>)

RespHead2M ==
  S(<<
    "H", "T", "T", "P", "/", "1", ".", "1", SP, "2", "0", "0", SP, "O", "K", CR, LF,
    "C", "o", "n", "t", "e", "n", "t", "-", "L", "e", "n", "g", "t", "h", ":", SP, "2",
    "0", "0", "0", "0", "0", "0", CR, LF, CR, LF
  >>)

RespNoLength ==
  S(<<
    "H", "T", "T", "P", "/", "1", ".", "1", SP, "2", "0", "0", SP, "O", "K", CR, LF,
    CR, LF
  >>)

RespHeadGzip ==
  S(<<
    "H", "T", "T", "P", "/", "1", ".", "1", SP, "2", "0", "0", SP, "O", "K", CR, LF,
    "C", "o", "n", "t", "e", "n", "t", "-", "E", "n", "c", "o", "d", "i", "n", "g",
    ":", SP, "g", "z", "i", "p", CR, LF, "C", "o", "n", "t", "e", "n", "t", "-", "L",
    "e", "n", "g", "t", "h", ":", SP, "2", "8", CR, LF, CR, LF
  >>)

Hello ==
  S(<<
    "h", "e", "l", "l", "o"
  >>)

Hexlo ==
  S(<<
    "h", "e", "x", "l", "o"
  >>)

\* a gzip member whose data bytes were altered after compression
GzipCorrupt == Cat(GzipHeader, Cat(StoredBlock(Hexlo), GzipTrailer(Hello)))
GzipWire ==
  Cat(Cat(RespHeadGzip, Gzip(Hello)), Cat(Cat(RespHeadGzip, GzipCorrupt), RespHello))

ReqNoHost ==
  S(<<
    "G", "E", "T", SP, "/", "p", "?", "q", "=", "2", SP, "H", "T", "T", "P", "/", "1",
    ".", "1", CR, LF, CR, LF
  >>)

ReqHostPort ==
  S(<<
    "G", "E", "T", SP, "/", SP, "H", "T", "T", "P", "/", "1", ".", "1", CR, LF, "H",
    "o", "s", "t", ":", SP, "h", ":", "8", "4", "4", "3", CR, LF, CR, LF
  >>)

IpA ==
  S(<<
    "1", "0", ".", "0", ".", "0", ".", "1"
  >>)

IpB ==
  S(<<
    "1", "0", ".", "0", ".", "0", ".", "2"
  >>)

IpB6 ==
  S(<<
    "2", "0", "0", "1", ":", "d", "b", "8", ":", ":", "2"
  >>)

NameB6 ==
  S(<<
    "v", "6", ".", "e", "x", "a", "m", "p", "l", "e", "."
  >>)

NameB ==
  S(<<
    "b", ".", "e", "x", "a", "m", "p", "l", "e"
  >>)

IPv4Pair == [A |-> IpA, B |-> IpB]
IPv6Pair == [A |-> IpA, B |-> IpB6]
AllIPs == {IpA, IpB, IpB6}
\* an A or AAAA record in the answer section of a DNS response
\* A DNS message as msg.Unpack gives it: whether Unpack succeeds, the
\* Response bit, the number of questions, and the answer section, each
\* answer with its type, its owner name and, for A and AAAA, its address.
Answer(type, ip, name) == [type |-> type, ip |-> ip, name |-> name]
DnsMsg(ok, response, questions, answers) ==
  [ok |-> ok, response |-> response, questions |-> questions, answers |-> answers]
DnsReply(answers) == DnsMsg(TRUE, TRUE, 1, answers)

TlsHello == Cat(S(<<TlsHandshake, TlsMajor>>), Run(TlsMinor, 6))

Dirs == {"AB", "BA"}
Rev(d) == IF d = "AB" THEN "BA" ELSE "AB"

Syn(d) == [dir |-> d, syn |-> TRUE, off |-> 0, len |-> 0, fin |-> FALSE]
Data(d, off, end) == [dir |-> d, syn |-> FALSE, off |-> off, len |-> end - off, fin |-> FALSE]
DataFin(d, off, end) == [dir |-> d, syn |-> FALSE, off |-> off, len |-> end - off, fin |-> TRUE]

FillerBody(n) == Run("x", n)
TlsWire == Cat(TlsHello, ReqShort)

Captures == <<
  \* one request in three overlapping segments
  [wire |-> [AB |-> ReqA, BA |-> <<>>], sport |-> "80", cport |-> "54321", ip |-> IPv4Pair, dns |-> {},
   packets |-> {Syn("AB"), Data("AB", 0, 5), Data("AB", 3, 20), DataFin("AB", 20, 42)}],
  \* a malformed start line followed by a well-formed request
  [wire |-> [AB |-> Cat(BadLine, ReqShort), BA |-> <<>>], sport |-> "8080", cport |-> "54321", ip |-> IPv4Pair, dns |-> {},
   packets |-> {Syn("AB"), Data("AB", 0, 9), Data("AB", 9, 36)}],
  \* a request and its response, the two directions of one connection
  [wire |-> [AB |-> ReqShort, BA |-> RespHello], sport |-> "80", cport |-> "54321", ip |-> IPv4Pair, dns |-> {},
   packets |-> {Syn("AB"), Data("AB", 0, 27), Syn("BA"), Data("BA", 0, 43)}],
  \* a TLS record header followed by plaintext, on a TLS port and on another
  [wire |-> [AB |-> TlsWire, BA |-> <<>>], sport |-> "443", cport |-> "54321", ip |-> IPv4Pair, dns |-> {},
   packets |-> {Syn("AB"), Data("AB", 0, 8), Data("AB", 8, 35)}],
  [wire |-> [AB |-> TlsWire, BA |-> <<>>], sport |-> "8080", cport |-> "54321", ip |-> IPv4Pair, dns |-> {},
   packets |-> {Syn("AB"), Data("AB", 0, 8), Data("AB", 8, 35)}],
  \* responses with bodies larger than the bufio buffer and than the body slice
  [wire |-> [AB |-> <<>>, BA |-> Cat(RespHead5000, FillerBody(5000))], sport |-> "80", cport |-> "54321", ip |-> IPv4Pair, dns |-> {},
   packets |-> {Syn("BA"), DataFin("BA", 0, 5041)}],
  [wire |-> [AB |-> <<>>, BA |-> Cat(RespHead2M, FillerBody(2000000))], sport |-> "80", cport |-> "54321", ip |-> IPv4Pair, dns |-> {},
   packets |-> {Syn("BA"), Data("BA", 0, 44), Data("BA", 44, 2000044)}],
  \* a response without Content-Length followed by a second response
  [wire |-> [AB |-> <<>>, BA |-> Cat(RespNoLength, RespHello)], sport |-> "80", cport |-> "54321", ip |-> IPv4Pair, dns |-> {},
   packets |-> {Syn("BA"), Data("BA", 0, 62)}],
  \* a gzip response, a response whose gzip body is corrupt, and a plain one
  [wire |-> [AB |-> <<>>, BA |-> GzipWire], sport |-> "80", cport |-> "54321", ip |-> IPv4Pair, dns |-> {},
   packets |-> {Syn("BA"), Data("BA", 0, 80), Data("BA", 80, 225)}],
  \* a request without Host header to an IPv6 server, with and without a DNS answer
  [wire |-> [AB |-> ReqNoHost, BA |-> <<>>], sport |-> "8080", cport |-> "54321", ip |-> IPv6Pair,
   dns |-> {DnsReply(<<Answer("AAAA", IpB6, NameB6)>>)},
   packets |-> {Syn("AB"), Data("AB", 0, 23)}],
  \* plaintext requests on port 8443: Host with a port, then no Host
  [wire |-> [AB |-> Cat(ReqHostPort, ReqNoHost), BA |-> <<>>], sport |-> "8443", cport |-> "54321", ip |-> IPv4Pair,
   dns |-> {},
   packets |-> {Syn("AB"), Data("AB", 0, 55)}],
  \* plaintext requests on port 443: with Host, then without, the server's name known or not
  [wire |-> [AB |-> Cat(ReqShort, ReqNoHost), BA |-> <<>>], sport |-> "443", cport |-> "54321", ip |-> IPv4Pair,
   dns |-> {DnsReply(<<Answer("A", IpB, NameB)>>)},
   packets |-> {Syn("AB"), Data("AB", 0, 50)}],
  \* two requests, each in a segment of its own
  [wire |-> [AB |-> Cat(ReqShort, ReqNoHost), BA |-> <<>>], sport |-> "8080", cport |-> "54321", ip |-> IPv4Pair,
   dns |-> {},
   packets |-> {Syn("AB"), Data("AB", 0, 27), Data("AB", 27, 50)}],
  \* a request sent from an ephemeral port to port 22
  [wire |-> [AB |-> ReqShort, BA |-> <<>>], sport |-> "22", cport |-> "54321", ip |-> IPv4Pair,
   dns |-> {},
   packets |-> {Syn("AB"), Data("AB", 0, 27)}],
  \* the same request between two ports that are not HTTP ports
  [wire |-> [AB |-> ReqShort, BA |-> <<>>], sport |-> "25", cport |-> "53", ip |-> IPv4Pair,
   dns |-> {},
   packets |-> {Syn("AB"), Data("AB", 0, 27)}],
  \* DNS traffic only: a query, a reply with a CNAME and three address
  \* answers, a reply without question, and a payload that does not unpack
  [wire |-> [AB |-> <<>>, BA |-> <<>>], sport |-> "80", cport |-> "54321", ip |-> IPv4Pair,
   dns |-> {DnsMsg(TRUE, FALSE, 1, <<>>),
            DnsReply(<<Answer("CNAME", <<>>, NameB), Answer("A", IpB, NameB6),
                       Answer("AAAA", IpB6, NameB6), Answer("A", IpB, NameB)>>),
            DnsMsg(TRUE, TRUE, 0, <<Answer("A", IpB, NameB6)>>),
            DnsMsg(FALSE, TRUE, 1, <<Answer("A", IpB, NameB)>>)},
   packets |-> {}],
  \* two status lines without status code, then a well-formed response
  [wire |-> [AB |-> <<>>, BA |-> Cat(BadStatus, Cat(BadStatus, RespHello))], sport |-> "80",
   cport |-> "54321", ip |-> IPv4Pair, dns |-> {},
   packets |-> {Syn("BA"), Data("BA", 0, 69)}]
>>

MaxPackets == 4
TlsPorts == {"443", "8443"}

\* The goroutines that resolve addresses through the cache (the parser
\* goroutines of two streams); no call has returned yet.
Callers == {"stream1", "stream2"}
NoCall == [op |-> "none"]

\* The maps of dns.Cache are functions on the addresses of the captures; a
\* lookup yields the pair (value, ok) of Go's two-valued map index.
NoEntry == [ok |-> FALSE, v |-> <<>>]
Entry(name) == [ok |-> TRUE, v |-> name]

\* The goroutines that call the cache's methods: main and the streams'; one
\* that is inside no method.
Tasks == {"main"} \cup Callers
Resting == [pc |-> "idle", op |-> "none", ip |-> <<>>, map |-> "none", access |-> "none",
            val |-> NoEntry]

\* A goroutine that is not inside GetWithRDNS.
Idle == [pc |-> "idle", ip |-> <<>>, adds |-> 0, neg |-> FALSE]

\* ---------------------------------------------------------------- state

VARIABLES
  cap,        \* the capture being analysed (an index of Captures)
  enableDNS,  \* the -dns flag
  mainPc,     \* main: "ingest", "flush" (in FlushAll), "grace" (the final Sleep), "done"
  sent,       \* packets read from the packet source so far
  seen,       \* per direction, the data segments given to the assembler so far
  stream,     \* "none", or the direction of the packet tcpStreamFactory.New was called for
  runs,       \* how many times tcpStreamFactory.New has run (go hstream.run)
  half,       \* the assembler's two half-connections: next sequence, queued pages, closed
  wr,         \* the Buffer.Write in progress in ReassembledSG, if any
  buf,        \* tcpReader.Buffer: the unread bytes
  ranges,     \* per direction, the [off, end) ranges handed to ReassembledSG, in order
  written,    \* per direction, the bytes ReassembledSG has passed to Buffer.Write
  handed,     \* all the bytes passed to Buffer.Write, in the order of the calls
  pc,         \* HTTPStream.run: where the parser goroutine stands
  rd,         \* the bufio.Reader's buffered, unread bytes
  hdr,        \* bytes of the message head ReadRequest/ReadResponse has consumed so far
  kind,       \* what the Peek made of the message being read
  msg,        \* the message head last parsed (req / resp)
  remaining,  \* bytes of the body the LimitedReader has left
  err,        \* the err of the last ReadRequest/ReadResponse: "none", "eof", "malformed"
  errs,       \* how many ReadRequest/ReadResponse calls have failed, by error
  ret,        \* the return statement run ended with
  took,       \* every byte the bufio.Reader has read from the Buffer, in order
  pos,        \* how many of those bytes the parser has consumed
  msgStart,   \* pos when the message being read was peeked
  out,        \* the messages printed, in order
  entries,    \* dns.Cache.entries: per IP address, the hostname stored if any
  rdnsCache,  \* dns.Cache.rdnsCache: per IP address, the reverse lookup's result if any
  call,       \* per goroutine using the cache: where its GetWithRDNS call stands
  lookups,    \* per IP address, how many net.LookupAddr calls were started
  started,    \* how many Get / GetWithRDNS calls have begun
  done,       \* the Get / GetWithRDNS call that returned last, and what it returned
  answered,   \* per IP address, what GetWithRDNS last returned, no Add for it since the call began
  negative,   \* per IP address, whether a failed reverse lookup has been stored
  addLog,     \* per IP address, the names Add was called with, in order
  mu,         \* dns.Cache.mu: the tasks holding the write lock, the read lock
  task        \* per task, where its call of a Cache method stands

lockVars == <<mu, task>>
cacheVars == <<entries, rdnsCache, call, lookups, started, done, answered, negative, addLog,
               lockVars>>
progVars == <<cap, enableDNS, mainPc, sent, seen, stream, runs, half, wr, buf, ranges, written, handed, pc, rd,
              hdr, kind, msg, remaining, err, errs, ret, took, pos, msgStart, out>>
ingestVars == <<cap, enableDNS, cacheVars, mainPc, sent, seen, stream, runs, half, ranges, written, handed>>
bufVars == <<wr, buf>>
parserVars == <<pc, rd, hdr, kind, msg, remaining, err, errs, ret, took, pos, msgStart, out>>
vars == <<cap, enableDNS, mainPc, sent, seen, stream, runs, half, wr, buf, ranges, written, handed, pc, rd, hdr,
          kind, msg, remaining, err, errs, ret, took, pos, msgStart, out, entries, rdnsCache,
          call, lookups, started, done, answered, negative, addLog, mu, task>>

Wire(d) == Captures[cap].wire[d]
ClientPort == Captures[cap].cport
NoWrite == [on |-> FALSE, grown |-> FALSE, data |-> <<>>]
NewHalf == [next |-> -1, pages |-> {}, closed |-> FALSE]

Init ==
  /\ cap \in 1..Len(Captures)
  /\ enableDNS \in (IF Captures[cap].dns = {} THEN {FALSE} ELSE BOOLEAN)
  /\ mainPc = "ingest"
  /\ sent = 0
  /\ seen = [d \in Dirs |-> {}]
  /\ stream = "none"
  /\ runs = 0
  /\ half = [d \in Dirs |-> NewHalf]
  /\ wr = NoWrite
  /\ buf = <<>>
  /\ ranges = [d \in Dirs |-> <<>>]
  /\ written = [d \in Dirs |-> <<>>]
  /\ handed = <<>>
  /\ pc = "idle"
  /\ rd = <<>>
  /\ hdr = <<>>
  /\ kind = "none"
  /\ msg = NoMsg
  /\ remaining = 0
  /\ err = "none"
  /\ errs = [eof |-> 0, malformed |-> 0]
  /\ ret = "none"
  /\ took = <<>>
  /\ pos = 0
  /\ msgStart = 0
  /\ out = <<>>
  /\ entries = [ip \in AllIPs |-> NoEntry]
  /\ rdnsCache = [ip \in AllIPs |-> NoEntry]
  /\ call = [t \in Callers |-> Idle]
  /\ lookups = [ip \in AllIPs |-> 0]
  /\ started = 0
  /\ done = NoCall
  /\ answered = [ip \in AllIPs |-> NoEntry]
  /\ negative = [ip \in AllIPs |-> FALSE]
  /\ addLog = [ip \in AllIPs |-> <<>>]
  /\ mu = [w |-> {}, r |-> {}]
  /\ task = [t \in Tasks |-> Resting]

\* ------------------------------------------------------------ dns.Cache
\* strings.TrimSuffix(fqdn, ".")
TrimSuffixNone(fqdn) == fqdn
TrimSuffixDot(fqdn) ==
  IF fqdn # <<>> /\ fqdn[Len(fqdn)].c = "." THEN Take(fqdn, BLen(fqdn) - 1) ELSE fqdn

\* Cache.Add and Cache.Get, each under the cache's lock.
AddIfAbsent(ip, fqdn) ==
  entries' = IF entries[ip].ok THEN entries ELSE [entries EXCEPT ![ip] = Entry(TrimSuffixDot(fqdn))]
AddAlone(ip, fqdn) ==
  entries' = [i \in AllIPs |-> IF i = ip THEN Entry(TrimSuffixDot(fqdn)) ELSE NoEntry]
Add(ip, fqdn) == entries' = [entries EXCEPT ![ip] = Entry(TrimSuffixDot(fqdn))]
GetMiss(ip) == NoEntry
Get(ip) == entries[ip]

\* ---------------------------------------- the assembler and ReassembledSG
\* reassembly.Assembler as main drives it: AssembleWithContext queues a
\* segment that starts beyond the half-connection's next sequence number (or
\* before any SYN was seen), and otherwise hands the stream the new bytes
\* together with the queued pages that have become contiguous; FlushAll
\* hands over every page still queued, first page first, skipping the gaps,
\* and closes both half-connections. One stream serves both directions of
\* the connection. A SYN is not retransmitted.

SetMax(xs) == CHOOSE x \in xs : \A y \in xs : x >= y
SetMin(xs) == CHOOSE x \in xs : \A y \in xs : x <= y

RECURSIVE ContigEnd(_, _)
ContigEnd(from, pages) ==
  LET over == {q \in pages : q.off <= from /\ q.off + q.len > from} IN
  IF over = {} THEN from ELSE ContigEnd(SetMax({q.off + q.len : q \in over}), pages)

\* sg.Lengths() and sg.Fetch(length): all the bytes of the ScatterGather.
SGFetchShort(sg) == Take(sg, BLen(sg) - 1)
SGFetch(sg) == Take(sg, BLen(sg))

\* tcpReader.ReassembledSG up to the start of Buffer.Write.
ReassembledSG(d, sg) ==
  LET data == SGFetch(sg) IN
  /\ written' = [written EXCEPT ![d] = Cat(@, data)]
  /\ handed' = Cat(handed, data)
  /\ wr' = IF data = <<>> THEN NoWrite ELSE [on |-> TRUE, grown |-> FALSE, data |-> data]

\* sendToConnection: the bytes from `from` to the end of the contiguous run.
SendToConnection(d, from, pages) ==
  LET e == ContigEnd(from, pages)
      sentPages == {q \in pages : q.off <= e}
      end == \E q \in sentPages : q.fin /\ q.off + q.len = e
  IN /\ half' = [half EXCEPT ![d] = [next |-> e, pages |-> pages \ sentPages, closed |-> end]]
     /\ ranges' = IF e > from THEN [ranges EXCEPT ![d] = Append(@, [off |-> from, end |-> e])]
                           ELSE ranges
     /\ ReassembledSG(d, Slice(Wire(d), from, e))

\* tcpReader.Accept
Accept(p) == TRUE

\* The ports of a packet, and main's isHTTPPort.
PacketSrcPort(p) == IF p.dir = "AB" THEN Captures[cap].cport ELSE Captures[cap].sport
PacketDstPort(p) == IF p.dir = "AB" THEN Captures[cap].sport ELSE Captures[cap].cport
NotHTTPPorts == {"22", "23", "25", "53", "110", "143", "993", "995"}
isHTTPPort(port) == port \notin NotHTTPPorts

\* Assembler.getConnection: the pool holds a connection under p's key or
\* under the reversed key, or a new one is made with tcpStreamFactory.New.
GetConnectionNewPerDirection(p) == stream # p.dir
GetConnectionNew(p) == stream = "none"

\* main's loop body for one packet: assembler.AssembleWithContext, which on the
\* connection's first packet calls tcpStreamFactory.New (go hstream.run).
Assemble(p) ==
  /\ mainPc = "ingest"
  /\ ~wr.on
  /\ sent < MaxPackets
  /\ p.syn => half[p.dir].next < 0
  /\ sent' = sent + 1
  /\ seen' = IF p.syn THEN seen ELSE [seen EXCEPT ![p.dir] = @ \cup {p}]
  /\ stream' = IF GetConnectionNew(p) THEN p.dir ELSE stream
  /\ runs' = IF GetConnectionNew(p) THEN runs + 1 ELSE runs
  /\ pc' = IF GetConnectionNew(p) THEN "wait1" ELSE pc
  /\ LET h == half[p.dir] IN
     IF h.closed \/ ~Accept(p)
       THEN UNCHANGED <<half, ranges, written, handed, wr>>
     ELSE IF p.syn
       THEN SendToConnection(p.dir, 0, h.pages)
     ELSE IF h.next < 0 \/ p.off > h.next
       THEN /\ half' = [half EXCEPT ![p.dir].pages = @ \cup {p}]
            /\ UNCHANGED <<ranges, written, handed, wr>>
     ELSE IF p.off + p.len <= h.next /\ ~p.fin
       THEN UNCHANGED <<half, ranges, written, handed, wr>>
     ELSE SendToConnection(p.dir, h.next, h.pages \cup {p})
  /\ UNCHANGED <<cap, enableDNS, cacheVars, mainPc, buf, rd, hdr, kind, msg, remaining, err, errs,
                 ret, took, pos, msgStart, out>>

\* dns.ParsePacket on the DNS message m: nothing when Unpack fails; for a
\* response with a question, cache.Add for each A and AAAA answer, in the
\* order of the answer section; nothing for any other message.
HasQuestionOrNot(m) == TRUE
HasQuestion(m) == m.questions > 0
AddressAnswers(m) ==
  IF m.ok /\ m.response /\ HasQuestion(m)
    THEN SelectSeq(m.answers, LAMBDA rr : rr.type \in {"A", "AAAA"})
    ELSE <<>>

RECURSIVE AddEach(_, _, _)
AddEach(e, log, answers) ==
  IF answers = <<>> THEN [e |-> e, log |-> log]
  ELSE AddEach([e EXCEPT ![answers[1].ip] = Entry(TrimSuffixDot(answers[1].name))],
               [log EXCEPT ![answers[1].ip] = Append(@, answers[1].name)],
               Tail(answers))

ParsePacket(m) ==
  \E r \in {AddEach(entries, addLog, AddressAnswers(m))} :
    entries' = r.e /\ addLog' = r.log

\* main's loop body for one DNS packet, which has no TCP layer:
\* if enableDNS { dns.ParsePacket(packet, dnsCache) }
DnsPacket ==
  /\ mainPc = "ingest"
  /\ ~wr.on
  /\ sent < MaxPackets
  /\ \E m \in Captures[cap].dns :
       IF enableDNS THEN ParsePacket(m) ELSE UNCHANGED <<entries, addLog>>
  /\ sent' = sent + 1
  /\ UNCHANGED <<rdnsCache, call, lookups, started, done, answered, negative, lockVars>>
  /\ UNCHANGED <<cap, enableDNS, mainPc, seen, stream, runs, half, ranges, written, handed, bufVars, parserVars>>

\* Buffer.Write, first half: the buffer's length grows by len(data).
WriteGrow ==
  /\ wr.on /\ ~wr.grown
  /\ wr' = [wr EXCEPT !.grown = TRUE]
  /\ UNCHANGED <<ingestVars, buf, parserVars>>

\* Buffer.Write appends p to the unread bytes b.
BufferWriteFront(b, p) == Cat(p, b)
BufferWrite(b, p) == Cat(b, p)

\* Buffer.Write, second half: the bytes are copied in and Write returns.
WriteEnd ==
  /\ wr.on /\ wr.grown
  /\ buf' = BufferWrite(buf, wr.data)
  /\ wr' = NoWrite
  /\ UNCHANGED <<ingestVars, parserVars>>

\* The packet source is exhausted: main leaves its loop.
SourceEnd ==
  /\ mainPc = "ingest"
  /\ ~wr.on
  /\ mainPc' = "flush"
  /\ UNCHANGED <<cap, enableDNS, cacheVars, sent, seen, stream, runs, half, ranges, written, handed, bufVars, parserVars>>

\* The half-connections in FlushAll's order: server-to-client, then
\* client-to-server; the client is the sender of the connection's first packet.
FlushOrder == IF stream = "none" THEN <<>> ELSE <<Rev(stream), stream>>
Unflushed == SelectSeq(FlushOrder, LAMBDA d : ~half[d].closed)

\* assembler.FlushAll, one skipFlush at a time.
FlushStep ==
  /\ mainPc = "flush"
  /\ ~wr.on
  /\ Unflushed # <<>>
  /\ LET d == Unflushed[1]
         h == half[d]
     IN IF h.pages = {}
          THEN /\ half' = [half EXCEPT ![d].closed = TRUE]
               /\ UNCHANGED <<ranges, written, handed, wr>>
          ELSE SendToConnection(d, SetMin({q.off : q \in h.pages}), h.pages)
  /\ UNCHANGED <<cap, enableDNS, cacheVars, mainPc, sent, seen, stream, runs, buf, parserVars>>

FlushDone ==
  /\ mainPc = "flush"
  /\ ~wr.on
  /\ Unflushed = <<>>
  /\ mainPc' = "grace"
  /\ UNCHANGED <<cap, enableDNS, cacheVars, sent, seen, stream, runs, half, ranges, written, handed, bufVars, parserVars>>

\* time.Sleep(500 * time.Millisecond) returns: main waits for the time to
\* pass and for nothing else.
SleepOverJoined == pc \in {"idle", "done"}
SleepOver == TRUE

\* main returns after the final Sleep: the process and its goroutines end.
MainExit ==
  /\ mainPc = "grace"
  /\ SleepOver
  /\ mainPc' = "done"
  /\ UNCHANGED <<cap, enableDNS, cacheVars, sent, seen, stream, runs, half, ranges, written, handed, bufVars, parserVars>>

\* ------------------------------------------------------ HTTPStream.run
\* The parser goroutine reads tcpReader.Buffer with no lock while main's
\* ReassembledSG writes it. A read that overlaps a Write sees the buffer as it
\* was before the Write or, once the Write has grown the buffer, with the new
\* bytes not yet copied (read as NUL). A Read that finds the buffer empty
\* resets it, and a Write that slips in before the reset is lost.

DefaultBufSize == 4096
PeekLen == 8
StableLen == 100
TlsPeekLen == 3
BodySliceLenDouble == 2 * 1024 * 1024
BodySliceLen == 1024 * 1024

Alive == mainPc # "done"
Ports == {ClientPort, Captures[cap].sport}

\* Buffer.Len() and the unread bytes, as the parser may observe them.
LenViews == {IF wr.grown THEN BLen(buf) + BLen(wr.data) ELSE BLen(buf)}
Visible == {IF wr.grown THEN Cat(buf, Run(NUL, BLen(wr.data))) ELSE buf}

\* tcpReader.Read: the first k bytes of the view v leave the buffer.
BufferRead(v, k) ==
  /\ buf' = Drop(buf, k)
  /\ wr' = IF k > BLen(buf) THEN [wr EXCEPT !.data = Drop(@, k - BLen(buf))] ELSE wr
  /\ took' = Cat(took, Take(v, k))

\* tcpReader.Read of the empty buffer: io.EOF, and Buffer.Reset.
ReadEOF ==
  /\ wr' \in {wr} \cup (IF wr.on /\ ~wr.grown THEN {[wr EXCEPT !.data = <<>>]} ELSE {})
  /\ UNCHANGED <<buf, took>>

Return(why) == pc' = "done" /\ ret' = why

IsTls(b0) ==
  CHOOSE r \in {(
        BLen(b) >= TlsPeekLen /\ ByteAt(b, 0) = TlsHandshake /\ ByteAt(b, 1) = TlsMajor
    ) : b \in {b0}} : TRUE

\* The first loop: up to 100 polls, 10 ms apart, for the first bytes. The
\* sleeps tie the polls to no step of main, so the loop is left either on a
\* poll that sees bytes or, its polls used up, at any later moment.
WindowOverNever(last) == FALSE
WindowOver(last) == last

WaitData ==
  /\ Alive /\ pc = "wait1"
  /\ \E n \in LenViews, last \in BOOLEAN : n > 0 \/ WindowOver(last)
  /\ pc' = "check"
  /\ UNCHANGED <<ingestVars, bufVars, rd, hdr, kind, msg, remaining, err, errs,
                 ret, took, pos, msgStart, out>>

\* if h.r.Buffer.Len() == 0 { return }
CheckData ==
  /\ Alive /\ pc = "check"
  /\ \E n \in LenViews :
       IF n = 0 THEN Return("empty") ELSE pc' = "wait2" /\ ret' = ret
  /\ UNCHANGED <<ingestVars, bufVars, rd, hdr, kind, msg, remaining, err, errs,
                 took, pos, msgStart, out>>

\* The second loop: up to 10 polls, 20 ms apart, left early once two polls in
\* a row see the same length above 100; in either case at any later moment.
WaitGrow ==
  /\ Alive /\ pc = "wait2"
  /\ \E cur \in LenViews, last \in BOOLEAN : cur > StableLen \/ last
  /\ pc' = "tls"
  /\ UNCHANGED <<ingestVars, bufVars, rd, hdr, kind, msg, remaining, err, errs,
                 ret, took, pos, msgStart, out>>

\* The TLS check by port: on port 443 or 8443, look at the first three bytes.
TlsPortCheck ==
  /\ Alive /\ pc = "tls"
  /\ IF Ports \cap TlsPorts # {}
       THEN \E v \in Visible : IF IsTls(v) THEN Return("tlsport") ELSE pc' = "peek" /\ ret' = ret
       ELSE pc' = "peek" /\ ret' = ret
  /\ UNCHANGED <<ingestVars, bufVars, rd, hdr, kind, msg, remaining, err, errs,
                 took, pos, msgStart, out>>

\* buf.Peek(8) with fewer than 8 bytes buffered: the bufio.Reader fills from
\* the buffer; a Read of the empty buffer is io.EOF, Peek fails and run returns.
PeekFill ==
  /\ Alive /\ pc = "peek"
  /\ BLen(rd) < PeekLen
  /\ \E v \in Visible :
       IF v = <<>>
         THEN /\ Return("peek")
              /\ ReadEOF
              /\ UNCHANGED rd
         ELSE LET k == Min(BLen(v), DefaultBufSize - BLen(rd)) IN
              /\ BufferRead(v, k)
              /\ rd' = Cat(rd, Take(v, k))
              /\ UNCHANGED <<pc, ret>>
  /\ UNCHANGED <<ingestVars, hdr, kind, msg, remaining, err, errs,
                 pos, msgStart, out>>

\* What run makes of the 8 peeked bytes: TLS, a response, or else a request.
PeekKindSticky(peek) ==
  IF IsTls(peek) THEN "tls"
  ELSE IF kind # "none" THEN kind
  ELSE IF HasPrefix(peek, HttpPrefix) THEN "response" ELSE "request"
PeekKind(peek) ==
  IF IsTls(peek) THEN "tls"
  ELSE IF HasPrefix(peek, HttpPrefix) THEN "response" ELSE "request"

Classify ==
  /\ Alive /\ pc = "peek"
  /\ BLen(rd) >= PeekLen
  /\ LET k == PeekKind(Take(rd, PeekLen)) IN
     IF k = "tls"
       THEN Return("tls") /\ UNCHANGED <<kind, msgStart>>
       ELSE pc' = "read" /\ ret' = ret /\ kind' = k /\ msgStart' = pos
  /\ UNCHANGED <<ingestVars, bufVars, rd, hdr, msg, remaining, err, errs,
                 took, pos, out>>

\* http.ReadResponse / http.ReadRequest on the bytes read so far.
MsgHead == Cat(hdr, rd)
Parsed == IF kind = "response" THEN ReadResponse(MsgHead) ELSE ReadRequest(MsgHead)
\* A failed ReadResponse: Sleep, continue. A failed ReadRequest: Sleep, then the
\* Buffer.Len() > buf.Buffered() test.
AfterError == IF kind = "response" THEN "peek" ELSE "reqerr"

\* The message head is incomplete: the bufio.Reader fills. At io.EOF the call
\* fails (io.ErrUnexpectedEOF), having consumed every byte it was given. A line
\* longer than the bufio buffer is returned piece by piece, each piece consumed
\* as the next is filled; the fills of one such line are taken in one step.
ReadFill ==
  /\ Alive /\ pc = "read"
  /\ \E p \in {Parsed}, v \in Visible :
       /\ p.st = "need"
       /\ IF v = <<>>
            THEN /\ pc' = AfterError
                 /\ err' = "eof"
                 /\ errs' = [errs EXCEPT !.eof = @ + 1]
                 /\ pos' = msgStart + BLen(MsgHead)
                 /\ rd' = <<>>
                 /\ hdr' = <<>>
                 /\ ReadEOF
            ELSE LET partial == BLen(MsgHead) - p.used IN
                 IF partial < DefaultBufSize
                   THEN LET k == Min(BLen(v), DefaultBufSize - partial) IN
                        /\ BufferRead(v, k)
                        /\ hdr' = Take(MsgHead, p.used)
                        /\ rd' = Cat(Drop(MsgHead, p.used), Take(v, k))
                        /\ pos' = msgStart + p.used
                        /\ UNCHANGED <<pc, err, errs>>
                   ELSE LET j == Index(v, LF)
                            k == IF j < 0 THEN BLen(v)
                                 ELSE Min(BLen(v), DefaultBufSize * ((j \div DefaultBufSize) + 1))
                            k0 == DefaultBufSize * ((k - 1) \div DefaultBufSize)
                        IN /\ BufferRead(v, k)
                           /\ hdr' = Cat(MsgHead, Take(v, k0))
                           /\ rd' = Slice(v, k0, k)
                           /\ pos' = msgStart + BLen(MsgHead) + k0
                           /\ UNCHANGED <<pc, err, errs>>
  /\ UNCHANGED <<ingestVars, kind, msg, remaining, ret, msgStart, out>>

\* The bytes a failed ReadRequest or ReadResponse has taken from the
\* bufio.Reader: the lines it has read.
ErrConsumedNone(p) == 0
ErrConsumed(p) == p.used

\* The start line or a header line is malformed: the call fails.
ReadFail ==
  /\ Alive /\ pc = "read"
  /\ \E p \in {Parsed} :
       /\ p.st = "err"
       /\ pos' = msgStart + ErrConsumed(p)
       /\ rd' = Drop(MsgHead, ErrConsumed(p))
  /\ pc' = AfterError
  /\ err' = "malformed"
  /\ errs' = [errs EXCEPT !.malformed = @ + 1]
  /\ hdr' = <<>>
  /\ UNCHANGED <<ingestVars, bufVars, kind, msg, remaining, ret, took, msgStart, out>>

ReadOk ==
  /\ Alive /\ pc = "read"
  /\ \E p \in {Parsed} :
       /\ p.st = "ok"
       /\ msg' = p
       /\ pos' = msgStart + p.used
       /\ rd' = Drop(MsgHead, p.used)
  /\ pc' = "body"
  /\ err' = "none"
  /\ hdr' = <<>>
  /\ UNCHANGED <<ingestVars, bufVars, kind, remaining, errs, ret, took, msgStart, out>>

\* After a failed ReadRequest: retry if the buffer holds more than bufio does.
RetryCheck ==
  /\ Alive /\ pc = "reqerr"
  /\ \E n \in LenViews :
       IF n > BLen(rd) THEN pc' = "peek" /\ ret' = ret ELSE Return("reqerr")
  /\ UNCHANGED <<ingestVars, bufVars, rd, hdr, kind, msg, remaining, err, errs,
                 took, pos, msgStart, out>>

\* printHTTPRequest / printHTTPResponse: one Body.Read into a 1 MiB slice.
ReadLimit == IF msg.bodyKind = "limited" THEN Min(BodySliceLen, msg.length) ELSE BodySliceLen

\* printHTTPRequest: the stream's endpoints are those of the packet
\* tcpStreamFactory.New was called for (h.net, h.transport).
SrcPort == IF stream = "AB" THEN ClientPort ELSE Captures[cap].sport
SrcIP == IF stream = "AB" THEN Captures[cap].ip.A ELSE Captures[cap].ip.B
DstPort == IF stream = "AB" THEN Captures[cap].sport ELSE ClientPort
DstIP == IF stream = "AB" THEN Captures[cap].ip.B ELSE Captures[cap].ip.A
PortText(p) ==
  CASE p = "80" -> S(<<"8", "0">>)
    [] p = "443" -> S(<<"4", "4", "3">>)
    [] p = "8080" -> S(<<"8", "0", "8", "0">>)
    [] p = "8443" -> S(<<"8", "4", "4", "3">>)
    [] p = "54321" -> S(<<"5", "4", "3", "2", "1">>)
    [] p = "22" -> S(<<"2", "2">>)
    [] p = "25" -> S(<<"2", "5">>)
    [] p = "53" -> S(<<"5", "3">>)

SchemeHttp == S(<<"h", "t", "t", "p">>)
SchemeHttps == S(<<"h", "t", "t", "p", "s">>)
SchemeSep == S(<<":", "/", "/">>)
HttpsPorts == {"443", "8443"}
Contains(s0, c0) ==
  CHOOSE r \in {(
        \E k \in 1..Len(s) : s[k].c = c
    ) : s \in {s0}, c \in {c0}} : TRUE

\* req.URL.Path and req.URL.RawQuery of an origin-form target (the targets
\* of the captures have no percent escapes, which Path would decode).
URLPath(uri0) ==
  CHOOSE r \in {(
        Cut(uri, "?").before
    ) : uri \in {uri0}} : TRUE
URLRawQuery(uri0) ==
  CHOOSE r \in {(
        Cut(uri, "?").after
    ) : uri \in {uri0}} : TRUE

AppendPort(hostname0, protocol0, dstPort0) ==
  CHOOSE r \in {(
        IF (protocol = SchemeHttp /\ dstPort # "80") \/ (protocol = SchemeHttps /\ dstPort # "443")
          THEN IF ~Contains(hostname, ":") THEN Cat(hostname, Cat(Run(":", 1), PortText(dstPort)))
               ELSE hostname
        ELSE hostname
    ) : hostname \in {hostname0}, protocol \in {protocol0}, dstPort \in {dstPort0}} : TRUE

Hostname(host0, dstFQDN0, dstIP0) ==
  CHOOSE r \in {(
        IF host # <<>> THEN host ELSE IF dstFQDN # <<>> THEN dstFQDN ELSE dstIP
    ) : host \in {host0}, dstFQDN \in {dstFQDN0}, dstIP \in {dstIP0}} : TRUE

FullURL(req0) ==
  CHOOSE r \in {(
        LET WithQuery(fullURL, query) ==
              IF query # <<>> THEN Cat(fullURL, Cat(Run("?", 1), query)) ELSE fullURL
            From(protocol, dstFQDN) ==
              Cat(protocol, Cat(SchemeSep,
                  Cat(AppendPort(Hostname(req.host, dstFQDN, DstIP), protocol, DstPort),
                      URLPath(req.uri))))
        IN WithQuery(From(IF DstPort \in HttpsPorts THEN SchemeHttps ELSE SchemeHttp,
                          IF Get(DstIP).ok THEN Get(DstIP).v ELSE <<>>),
                     URLRawQuery(req.uri))
    ) : req \in {req0}} : TRUE

\* The body as printed: nothing when the Read returned no byte; for
\* Content-Encoding "gzip" the decompressed bytes, or the raw bytes with the
\* failure note when decompressGzip returns an error; the raw bytes otherwise.
BodyShown(body0) ==
  CHOOSE r \in {(
        IF body = <<>> THEN [shown |-> <<>>, note |-> "none"]
        ELSE IF HeaderGet(msg.hdr, NameContentEncoding) = ValueGzip
          THEN LET Of(d) == IF d.ok THEN [shown |-> d.data, note |-> "decompressed"]
                            ELSE [shown |-> body, note |-> "failed"]
               IN Bind1(Of, decompressGzip(body))
        ELSE [shown |-> body, note |-> "plain"]
    ) : body \in {body0}} : TRUE

\* srcFQDN, dstFQDN: dnsCache.Get, and the empty string when it finds nothing.
FQDN(ip) == IF Get(ip).ok THEN Get(ip).v ELSE <<>>

Printed(body) ==
  [kind |-> msg.kind, start |-> msgStart, used |-> msg.used, method |-> msg.method, uri |-> msg.uri,
   proto |-> msg.proto, status |-> msg.status, host |-> msg.host,
   bodyKind |-> msg.bodyKind, length |-> msg.length, body |-> body,
   avail |-> BLen(rd) + BLen(buf),
   encoding |-> HeaderGet(msg.hdr, NameContentEncoding),
   url |-> IF msg.kind = "request" THEN FullURL(msg) ELSE <<>>,
   srcPort |-> SrcPort, srcIP |-> SrcIP, dstPort |-> DstPort, dstIP |-> DstIP,
   srcFQDN |-> FQDN(SrcIP), dstFQDN |-> FQDN(DstIP), cache |-> entries] @@ BodyShown(body)

AfterRead(body) ==
  /\ out' = Append(out, Printed(body))
  /\ remaining' = IF msg.bodyKind = "limited" THEN msg.length - BLen(body) ELSE 0
  /\ pos' = pos + BLen(body)
  /\ pc' = IF msg.bodyKind = "none" THEN "peek" ELSE "close"

\* No body, or body bytes already buffered by bufio: Read copies what is buffered.
PrintBuffered ==
  /\ Alive /\ pc = "body"
  /\ msg.bodyKind = "none" \/ rd # <<>>
  /\ LET body == IF msg.bodyKind = "none" THEN <<>> ELSE Take(rd, ReadLimit) IN
     /\ AfterRead(body)
     /\ rd' = Drop(rd, BLen(body))
  /\ UNCHANGED <<ingestVars, bufVars, hdr, kind, msg, err, errs, ret, took, msgStart>>

\* Nothing buffered: bufio reads the buffer once, straight into the slice when
\* the slice is at least as large as its own buffer.
PrintDirect ==
  /\ Alive /\ pc = "body"
  /\ msg.bodyKind # "none" /\ rd = <<>>
  /\ \E v \in Visible :
       LET pulled == Take(v, IF ReadLimit >= DefaultBufSize THEN ReadLimit ELSE DefaultBufSize)
           body == Take(pulled, ReadLimit)
       IN /\ IF v = <<>> THEN ReadEOF ELSE BufferRead(v, BLen(pulled))
          /\ rd' = Drop(pulled, BLen(body))
          /\ AfterRead(body)
  /\ UNCHANGED <<ingestVars, hdr, kind, msg, err, errs, ret, msgStart>>

\* Body.Close: nothing to do after EOF or on a closing connection; otherwise
\* the rest of the body is read and discarded, to its end or to io.EOF. (The
\* one Read before it has emptied bufio's buffer whenever body bytes remain.)
BodyClose ==
  /\ Alive /\ pc = "close"
  /\ IF remaining = 0 \/ msg.closing
       THEN /\ pc' = "peek" /\ remaining' = 0
            /\ UNCHANGED <<bufVars, rd, took, pos>>
     ELSE \E v \in Visible :
            IF v = <<>>
              THEN /\ pc' = "peek" /\ remaining' = 0
                   /\ ReadEOF
                   /\ UNCHANGED <<rd, pos>>
              ELSE LET k == Min(remaining, BLen(v)) IN
                   /\ BufferRead(v, k)
                   /\ remaining' = remaining - k /\ pos' = pos + k
                   /\ UNCHANGED <<pc, rd>>
  /\ UNCHANGED <<ingestVars, hdr, kind, msg, err, errs, ret, msgStart, out>>

\* ------------------------------------------------------- specification

\* main's loop body for one TCP packet: the packet is given to the assembler
\* when isHTTPPort(srcPort) || isHTTPPort(dstPort), and passed over otherwise.
Ingest ==
  \E p \in Captures[cap].packets :
    IF isHTTPPort(PacketSrcPort(p)) \/ isHTTPPort(PacketDstPort(p))
      THEN Assemble(p)
      ELSE /\ mainPc = "ingest"
           /\ ~wr.on
           /\ sent < MaxPackets
           /\ sent' = sent + 1
           /\ UNCHANGED <<cap, enableDNS, cacheVars, mainPc, seen, stream, runs, half, ranges, written,
                          handed, bufVars, parserVars>>

Next ==
  \/ Ingest
  \/ DnsPacket
  \/ WriteGrow
  \/ WriteEnd
  \/ SourceEnd
  \/ FlushStep
  \/ FlushDone
  \/ MainExit
  \/ WaitData
  \/ CheckData
  \/ WaitGrow
  \/ TlsPortCheck
  \/ PeekFill
  \/ Classify
  \/ ReadFill
  \/ ReadFail
  \/ ReadOk
  \/ RetryCheck
  \/ PrintBuffered
  \/ PrintDirect
  \/ BodyClose

Spec == Init /\ [][Next]_vars

\* The steps of the main goroutine. It is runnable at each of them, so the
\* scheduler lets it take the step in the end.
MainStep ==
  \/ Ingest
  \/ DnsPacket
  \/ WriteGrow
  \/ WriteEnd
  \/ SourceEnd
  \/ FlushStep
  \/ FlushDone
  \/ MainExit

SpecMain == Spec /\ WF_vars(MainStep)

\* The steps of the parser goroutine: between two of them lies at most a
\* Sleep of bounded length, so it takes its next step in the end. Nothing is
\* assumed of main, which may stay in its final Sleep for any time.
RunStep ==
  \/ WaitData
  \/ CheckData
  \/ WaitGrow
  \/ TlsPortCheck
  \/ PeekFill
  \/ Classify
  \/ ReadFill
  \/ ReadFail
  \/ ReadOk
  \/ RetryCheck
  \/ PrintBuffered
  \/ PrintDirect
  \/ BodyClose

SpecRun == Spec /\ WF_vars(RunStep)

PtrName ==
  S(<<
    "p", "t", "r", ".", "e", "x", "a", "m", "p", "l", "e", "."
  >>)

\* ------------------------------------------------- the cache in use
\* dns.Cache shared by main's goroutine, which adds the answers of the DNS
\* responses it reads (ParsePacket), and the streams' goroutines, which
\* resolve addresses with Get and GetWithRDNS. Each method body under the
\* cache's lock is one step; net.LookupAddr runs with no lock held.

MaxCalls == 3
MaxAdds == 2
CacheIPs == {IpB, IpB6}
Fqdns == {NameB, NameB6}

\* How many Add calls were made for the addresses ips.
RECURSIVE Added(_)
Added(ips) ==
  IF ips = {} THEN 0
  ELSE LET ip == CHOOSE i \in ips : TRUE IN Len(addLog[ip]) + Added(ips \ {ip})

\* The name given by the n-th Add for ip, as it was given.
AddedAt(ip, n) == IF n = 0 THEN NoEntry ELSE Entry(addLog[ip][n])

\* A call returns v: what the call was, whether it looked the address up,
\* and what the forward map held for the address and which name had last
\* been added for it when the call began (fwd, added), adds being the number
\* of Adds for the address made by then.
Returned(op, ip, v, ok, looked, fwd, adds) ==
  /\ done' = [op |-> op, ip |-> ip, v |-> v, ok |-> ok, looked |-> looked, fwd |-> fwd,
              added |-> AddedAt(ip, adds)]
  /\ answered' = IF op = "GetWithRDNS" /\ adds = Len(addLog[ip])
                   THEN [answered EXCEPT ![ip] = Entry(v)]
                   ELSE answered

\* main: cache.Add for an A or AAAA answer (internal/dns/parser.go).
CacheAdd ==
  /\ Added(AllIPs) < MaxAdds
  /\ \E ip \in CacheIPs, fqdn \in Fqdns :
       /\ Add(ip, fqdn)
       /\ addLog' = [addLog EXCEPT ![ip] = Append(@, fqdn)]
       /\ answered' = [answered EXCEPT ![ip] = NoEntry]
  /\ UNCHANGED <<progVars, lockVars, rdnsCache, call, lookups, started, done, negative>>

\* A stream: cache.Get(ip).
CacheGet(t) ==
  /\ call[t].pc = "idle" /\ started < MaxCalls
  /\ started' = started + 1
  /\ \E ip \in CacheIPs :
       Returned("Get", ip, Get(ip).v, Get(ip).ok, FALSE, entries[ip], Len(addLog[ip]))
  /\ UNCHANGED <<progVars, lockVars, entries, rdnsCache, call, lookups, negative, addLog>>

\* GetWithRDNS, first step: the forward map, through Get.
GetWithRDNSForward(t) ==
  /\ call[t].pc = "idle" /\ started < MaxCalls
  /\ started' = started + 1
  /\ \E ip \in CacheIPs :
       IF Get(ip).ok
         THEN /\ Returned("GetWithRDNS", ip, Get(ip).v, TRUE, FALSE, entries[ip],
                          Len(addLog[ip]))
              /\ UNCHANGED call
         ELSE /\ call' = [call EXCEPT ![t] = [pc |-> "rdns", ip |-> ip,
                                              adds |-> Len(addLog[ip]), neg |-> negative[ip]]]
              /\ UNCHANGED <<done, answered>>
  /\ UNCHANGED <<progVars, lockVars, entries, rdnsCache, lookups, negative, addLog>>

\* Second step: the reverse map, under the read lock; on a miss the lock is
\* released and net.DefaultResolver.LookupAddr is called (2 s timeout).
GetWithRDNSCached(t) ==
  /\ call[t].pc = "rdns"
  /\ IF rdnsCache[call[t].ip].ok
       THEN /\ Returned("GetWithRDNS", call[t].ip, rdnsCache[call[t].ip].v, TRUE, FALSE,
                        NoEntry, call[t].adds)
            /\ call' = [call EXCEPT ![t] = Idle]
            /\ UNCHANGED lookups
       ELSE /\ call' = [call EXCEPT ![t].pc = "lookup"]
            /\ lookups' = [lookups EXCEPT ![call[t].ip] = @ + 1]
            /\ UNCHANGED <<done, answered>>
  /\ UNCHANGED <<progVars, lockVars, entries, rdnsCache, started, negative, addLog>>

\* Last step: LookupAddr returns, with no lock held: it has failed (error,
\* timeout, no name) or yields the address's PTR name. The result, negative
\* or not, is stored under the write lock and returned.
LookupAddr(t) ==
  /\ call[t].pc = "lookup"
  /\ \E names \in {<<>>, PtrName} :
       LET hostname == IF names = <<>> THEN <<>> ELSE TrimSuffixDot(names) IN
       /\ rdnsCache' = [rdnsCache EXCEPT ![call[t].ip] = Entry(hostname)]
       /\ negative' = [negative EXCEPT ![call[t].ip] = @ \/ names = <<>>]
       /\ Returned("GetWithRDNS", call[t].ip, hostname, TRUE, TRUE, NoEntry, call[t].adds)
  /\ call' = [call EXCEPT ![t] = Idle]
  /\ UNCHANGED <<progVars, lockVars, entries, lookups, started, addLog>>

InitCache == Init /\ cap = 1

NextCache ==
  \/ CacheAdd
  \/ \E t \in Callers : CacheGet(t)
  \/ \E t \in Callers : GetWithRDNSForward(t)
  \/ \E t \in Callers : GetWithRDNSCached(t)
  \/ \E t \in Callers : LookupAddr(t)

SpecCache == InitCache /\ [][NextCache]_vars

\* ------------------------------------------------- the cache's lock
\* dns.Cache with its sync.RWMutex: every method of the cache called by main
\* and the streams' goroutines, one step for each Lock / RLock, for the
\* access to the map made under it, and for each Unlock / RUnlock; the
\* reverse lookup of GetWithRDNS is a step between two locked sections. A
\* Lock that waits holds back new RLocks in sync.RWMutex; the model lets
\* them in, which only adds interleavings.

Ops == {"Add", "Get", "Size", "GetWithRDNS"}

\* The call of c.mu the method makes before the access: Lock before a write
\* (Add, the stores of GetWithRDNS), RLock before a read.
LocksShared(op, access) == "RLock"
Locks(op, access) == IF access = "write" THEN "Lock" ELSE "RLock"

Holds(t) == t \in mu.w \cup mu.r

\* A task calls a method of the cache.
Begin(t) ==
  /\ task[t].pc = "idle" /\ started < MaxCalls
  /\ started' = started + 1
  /\ \E op \in Ops, ip \in CacheIPs :
       \E fqdn \in IF op = "Add" THEN Fqdns ELSE {<<>>} :
         task' = [task EXCEPT ![t] =
                    [pc |-> "acquire", op |-> op, ip |-> ip, map |-> "entries",
                     access |-> IF op = "Add" THEN "write" ELSE "read",
                     val |-> IF op = "Add" THEN Entry(fqdn) ELSE NoEntry]]
  /\ UNCHANGED <<progVars, entries, rdnsCache, call, lookups, done, answered, negative,
                 addLog, mu>>

\* c.mu.Lock(): granted when no task holds the lock.
Lock(t) ==
  /\ task[t].pc = "acquire" /\ Locks(task[t].op, task[t].access) = "Lock"
  /\ mu.w = {} /\ mu.r = {}
  /\ mu' = [mu EXCEPT !.w = @ \cup {t}]
  /\ task' = [task EXCEPT ![t].pc = "access"]
  /\ UNCHANGED <<progVars, entries, rdnsCache, call, lookups, started, done, answered,
                 negative, addLog>>

\* c.mu.RLock(): granted when no task holds the write lock.
RLock(t) ==
  /\ task[t].pc = "acquire" /\ Locks(task[t].op, task[t].access) = "RLock"
  /\ mu.w = {}
  /\ mu' = [mu EXCEPT !.r = @ \cup {t}]
  /\ task' = [task EXCEPT ![t].pc = "access"]
  /\ UNCHANGED <<progVars, entries, rdnsCache, call, lookups, started, done, answered,
                 negative, addLog>>

\* The statement between the lock and the unlock: Add's assignment, the map
\* index of Get and of GetWithRDNS, Size's len, the stores of GetWithRDNS.
Access(t) ==
  /\ task[t].pc = "access"
  /\ LET c == task[t] IN
     /\ IF c.op = "Add"
          THEN Add(c.ip, c.val.v) /\ UNCHANGED rdnsCache
        ELSE IF c.access = "write"
          THEN rdnsCache' = [rdnsCache EXCEPT ![c.ip] = c.val] /\ UNCHANGED entries
        ELSE UNCHANGED <<entries, rdnsCache>>
     /\ task' = [task EXCEPT ![t].pc = "release",
                             ![t].val = IF c.access = "write" THEN c.val
                                        ELSE IF c.op = "Size" THEN NoEntry
                                        ELSE IF c.map = "entries" THEN Get(c.ip)
                                        ELSE rdnsCache[c.ip]]
  /\ UNCHANGED <<progVars, call, lookups, started, done, answered, negative, addLog, mu>>

\* What the method does after the unlock: Add, Get and Size return;
\* GetWithRDNS returns what it found or stored, goes on from the forward map
\* to the reverse map, or from there to the lookup.
AfterUnlock(c) ==
  IF c.op # "GetWithRDNS" \/ c.access = "write" \/ c.val.ok THEN Resting
  ELSE IF c.map = "entries" THEN [c EXCEPT !.pc = "acquire", !.map = "rdnsCache"]
  ELSE [c EXCEPT !.pc = "lookup"]

\* The holders of the lock after task t, at c in its method, has run its
\* Unlock or RUnlock: every unlock of the cache's methods is reached before
\* the method goes on, the RUnlock before the reverse lookup too.
ReleaseAfterLookup(held, t, c) ==
  IF c.op = "GetWithRDNS" /\ c.map = "rdnsCache" /\ c.access = "read" /\ ~c.val.ok
    THEN held ELSE held \ {t}
Release(held, t, c) == held \ {t}

\* c.mu.Unlock() / c.mu.RUnlock(), deferred or explicit.
Unlock(t) ==
  /\ task[t].pc = "release" /\ t \in mu.w
  /\ mu' = [mu EXCEPT !.w = Release(@, t, task[t])]
  /\ task' = [task EXCEPT ![t] = AfterUnlock(task[t])]
  /\ lookups' = IF AfterUnlock(task[t]).pc = "lookup"
                  THEN [lookups EXCEPT ![task[t].ip] = @ + 1] ELSE lookups
  /\ UNCHANGED <<progVars, entries, rdnsCache, call, started, done, answered, negative,
                 addLog>>

RUnlock(t) ==
  /\ task[t].pc = "release" /\ t \in mu.r
  /\ mu' = [mu EXCEPT !.r = Release(@, t, task[t])]
  /\ task' = [task EXCEPT ![t] = AfterUnlock(task[t])]
  /\ lookups' = IF AfterUnlock(task[t]).pc = "lookup"
                  THEN [lookups EXCEPT ![task[t].ip] = @ + 1] ELSE lookups
  /\ UNCHANGED <<progVars, entries, rdnsCache, call, started, done, answered, negative,
                 addLog>>

\* net.DefaultResolver.LookupAddr returns to GetWithRDNS: a failure, or the
\* PTR name; the store under the write lock follows.
LookupReturn(t) ==
  /\ task[t].pc = "lookup"
  /\ \E names \in {<<>>, PtrName} :
       task' = [task EXCEPT ![t].pc = "acquire", ![t].access = "write",
                            ![t].val = Entry(IF names = <<>> THEN <<>>
                                             ELSE TrimSuffixDot(names))]
  /\ UNCHANGED <<progVars, entries, rdnsCache, call, lookups, started, done, answered,
                 negative, addLog, mu>>

InitLock == Init /\ cap = 1

NextLock ==
  \/ \E t \in Tasks : Begin(t)
  \/ \E t \in Tasks : Lock(t)
  \/ \E t \in Tasks : RLock(t)
  \/ \E t \in Tasks : Access(t)
  \/ \E t \in Tasks : Unlock(t)
  \/ \E t \in Tasks : RUnlock(t)
  \/ \E t \in Tasks : LookupReturn(t)

SpecLock == InitLock /\ [][NextLock]_vars

\* --------------------------------------------------------- properties

\* The segments of direction d read so far leave no gap from the first byte on.
Covered(d) == ContigEnd(0, seen[d])
NoGap(d) == \A q \in seen[d] : q.off + q.len <= Covered(d)
Flushed == mainPc \in {"grace", "done"}

\* C1: whatever the order of the segments of one direction (reordered,
\* duplicated, overlapping), as long as they leave no gap the bytes
\* ReassembledSG has written are a prefix of the original byte sequence, in
\* order and none twice, and after FlushAll they are all the bytes the
\* segments cover.
C1_ReassemblyExact ==
  \A d \in Dirs :
    NoGap(d) =>
      /\ IsPrefixOf(written[d], Wire(d))
      /\ BLen(written[d]) <= Covered(d)
      /\ Flushed => written[d] = Take(Wire(d), Covered(d))

\* Three segments, one overlapping another, read ahead of the SYN, and handed
\* over as one range that is the whole byte sequence.
C1_Witness ==
  \E d \in Dirs :
    /\ Cardinality(seen[d]) >= 3
    /\ \E q, r \in seen[d] : q.off < r.off /\ r.off < q.off + q.len
    /\ ranges[d] = <<[off |-> 0, end |-> BLen(Wire(d))]>>
    /\ written[d] = Wire(d)
    /\ BLen(Wire(d)) > 0

\* C2: once the contiguous prefix of one direction has been handed to
\* ReassembledSG, each later range starts where the one before ended: no byte
\* after an open gap is ever written to the parse buffer, FlushAll included.
C2_PrefixOnly ==
  \A d \in Dirs :
    (ranges[d] # <<>> /\ ranges[d][1].off = 0) =>
      \A k \in 2..Len(ranges[d]) : ranges[d][k].off = ranges[d][k - 1].end

\* C3: the hand-off is safe under every interleaving: every byte the parser
\* has read from the buffer is a byte ReassembledSG wrote, in the order
\* written, and between two Writes the bytes read and the bytes still unread
\* are together exactly the bytes written: none lost, none read twice.
C3_HandoffSafe ==
  /\ IsPrefixOf(took, handed)
  /\ ~wr.on => Cat(took, buf) = handed

\* C4: a read of a message that runs out of bytes consumes nothing: when
\* ReadRequest or ReadResponse has last stopped for want of bytes, on a
\* message that starts the stream and whose bytes were read as written, the
\* parser's position is still the start of that message and run has not
\* returned.
C4_Suspends ==
  (err = "eof" /\ msgStart = 0 /\ IsPrefixOf(took, Wire(stream))) =>
    (pos = msgStart /\ pc # "done")

\* C5: once ReadRequest or ReadResponse has failed on a malformed start line
\* or header, no request and no response is printed for that stream.
C5_NoRestart == [][errs.malformed > 0 => out' = out]_vars
\* The role the bytes at position k of the stream as read call for.
RoleAt(k) == IF HasPrefix(Slice(took, k, k + PeekLen), HttpPrefix) THEN "response" ELSE "request"

C7_Deferred == ret = "peek" => BLen(rd) < TlsPeekLen

\* C8: a stream whose first two bytes are 0x16 0x03 yields no message, on any
\* port, however many bytes are delivered to it later.
C8_TlsOpaque ==
  (BLen(handed) >= 2 /\ ByteAt(handed, 0) = TlsHandshake /\ ByteAt(handed, 1) = TlsMajor)
    => out = <<>>

\* C9: a response announcing Content-Length N, 0 < N <= 1 MiB, printed when N
\* bytes or more follow its head in the stream, is printed with a body of
\* exactly N bytes.
C9_ExactBody ==
  \A k \in 1..Len(out) :
    (/\ out[k].kind = "response"
     /\ out[k].bodyKind = "limited"
     /\ out[k].length > 0
     /\ out[k].length <= BodySliceLen
     /\ out[k].avail >= out[k].length)
      => BLen(out[k].body) = out[k].length

\* C10: the body of every printed request or response holds at most 1 MiB.
C10_BodyCap == \A k \in 1..Len(out) : BLen(out[k].body) <= 1048576

\* A response announcing 2000000 body bytes is printed with exactly 1 MiB of them.
C10_Witness ==
  \E k \in 1..Len(out) :
    /\ out[k].length = 2000000
    /\ BLen(out[k].body) = 1048576

\* C11: a message without a Content-Length header is printed with no body:
\* the parser reads no body bytes for it, and the bytes after its head are
\* left to be parsed as the next message.
C11_NoLengthNoBody ==
  \A k \in 1..Len(out) : out[k].bodyKind # "limited" => out[k].body = <<>>

\* C12: a message with Content-Encoding gzip and a non-empty body is printed
\* with the decompressed data when its body is a gzip stream, and with the
\* raw body and the failure note when it is not; printing a message, gzip
\* failure included, never ends the parsing of the stream.
GzipPlains == {Hello, Hexlo}
C12_GzipBody ==
  /\ [](\A k \in 1..Len(out) :
          out[k].encoding = ValueGzip /\ out[k].body # <<>> =>
            IF \E plain \in GzipPlains : out[k].body = Gzip(plain)
              THEN /\ out[k].note = "decompressed"
                   /\ out[k].body = Gzip(out[k].shown)
              ELSE /\ out[k].note = "failed"
                   /\ out[k].shown = out[k].body)
  /\ [][Len(out') > Len(out) => pc' \in {"peek", "close"} /\ ret' = "none"]_vars

\* a corrupt gzip body was printed raw and a later message was still printed
C12_Witness ==
  \E j, k \in 1..Len(out) :
    /\ j < k
    /\ out[j].encoding = ValueGzip /\ out[j].note = "failed" /\ out[j].body = GzipCorrupt
    /\ \E i \in 1..Len(out) : out[i].note = "decompressed" /\ out[i].shown = Hello

\* In the captures every request travels from the client A to the server B:
\* its destination is B's address and the server port.
ReqDstPort == Captures[cap].sport
ReqDstIP == Captures[cap].ip.B
PathAndQuery(uri) ==
  LET c == Cut(uri, "?") IN
  IF c.after # <<>> THEN Cat(c.before, Cat(Run("?", 1), c.after)) ELSE c.before
Authority(m) ==
  IF m.host # <<>> THEN m.host
  ELSE IF m.cache[ReqDstIP].ok /\ m.cache[ReqDstIP].v # <<>> THEN m.cache[ReqDstIP].v
  ELSE ReqDstIP
Scheme == IF ReqDstPort \in {"443", "8443"} THEN SchemeHttps ELSE SchemeHttp
PortSuffix == Cat(Run(":", 1), PortText(ReqDstPort))

\* C13: the URL printed for a request is scheme://authority, possibly with
\* the destination port, followed by the path and, when the query is not
\* empty, '?' and the query; the scheme is https exactly when the request's
\* destination port is 443 or 8443; the authority is the Host header if not
\* empty, else the cached hostname of the destination address if not empty,
\* else the destination address.
C13_Url ==
  \A k \in 1..Len(out) :
    out[k].kind = "request" =>
      \E suffix \in {<<>>, PortSuffix} :
        out[k].url = Cat(Scheme, Cat(SchemeSep, Cat(Authority(out[k]),
                         Cat(suffix, PathAndQuery(out[k].uri)))))

\* C13 for the requests of streams created by a packet from the client.
C13_UrlClientFirst == stream = "AB" => C13_Url

\* The authority carries a port of its own: a Host header with a colon (the
\* Host headers of the captures are names; cached names and raw addresses
\* carry no port).
HasExplicitPort(m) == m.host # <<>> /\ Contains(m.host, ":")
NonCanonical ==
  (Scheme = SchemeHttp /\ ReqDstPort # "80") \/ (Scheme = SchemeHttps /\ ReqDstPort # "443")

\* C14: the destination port is appended to the authority of a request's
\* URL exactly when (scheme, port) is neither (http, 80) nor (https, 443) and
\* the authority carries no port of its own; a raw IPv4 or IPv6 address gets
\* the non-default port appended. (Stated for streams created by a packet
\* from the client, where the stream's destination is the request's.)
C14_PortAppended ==
  stream = "AB" =>
    \A k \in 1..Len(out) :
      out[k].kind = "request" =>
        LET suffix == IF NonCanonical /\ ~HasExplicitPort(out[k]) THEN PortSuffix ELSE <<>>
        IN out[k].url = Cat(Scheme, Cat(SchemeSep, Cat(Authority(out[k]),
                            Cat(suffix, PathAndQuery(out[k].uri)))))

\* C14 where the authority is not a raw IPv6 address.
C14_PortAppendedNoIPv6 ==
  stream = "AB" =>
    \A k \in 1..Len(out) :
      out[k].kind = "request" /\ ~(Authority(out[k]) = ReqDstIP /\ Contains(ReqDstIP, ":")) =>
        LET suffix == IF NonCanonical /\ ~HasExplicitPort(out[k]) THEN PortSuffix ELSE <<>>
        IN out[k].url = Cat(Scheme, Cat(SchemeSep, Cat(Authority(out[k]),
                            Cat(suffix, PathAndQuery(out[k].uri)))))

\* v is name with one trailing dot taken off, if it has one.
EndsWithDot(name) == name # <<>> /\ name[Len(name)].c = "."
DotStripped(name, v) == IF EndsWithDot(name) THEN Cat(v, Run(".", 1)) = name ELSE v = name

\* C15: a Get or GetWithRDNS call for an address made after an Add for that
\* address returns the name of the latest such Add with one trailing dot
\* stripped, and performs no reverse lookup.
C15_AddThenResolve ==
  done.op # "none" /\ done.added.ok =>
    /\ done.ok
    /\ DotStripped(done.added.v, done.v)
    /\ ~done.looked

\* GetWithRDNS has returned "v6.example" after Add(ip, "v6.example.").
C15_Witness ==
  /\ done.op = "GetWithRDNS"
  /\ done.added = Entry(NameB6)
  /\ done.v # NameB6
  /\ BLen(done.v) = BLen(NameB6) - 1

\* C16: for every address, at most one reverse lookup is ever started, with
\* any number of goroutines calling GetWithRDNS concurrently.
C16_OneLookupPerIP == \A ip \in AllIPs : lookups[ip] <= 1

\* C17: two GetWithRDNS calls for one address with no Add for it between
\* them return the same hostname, also from different goroutines and when
\* the reverse lookup succeeds for one call and fails for another: with no
\* Add for the address from the beginning of the two calls to their end,
\* what GetWithRDNS returned for it last is what it returns next.
C17_SameHostname ==
  [][\A ip \in AllIPs :
       answered[ip].ok /\ answered'[ip].ok => answered'[ip] = answered[ip]]_vars

\* C18: forward entries take priority and never expire: a GetWithRDNS call
\* that begins when the forward map holds a name for the address returns
\* that name, with no lookup, whatever the reverse map holds for the
\* address, and a forward entry once added is never removed.
C18_ForwardFirst ==
  /\ [](done.op = "GetWithRDNS" /\ done.fwd.ok => done.v = done.fwd.v /\ ~done.looked)
  /\ [][\A ip \in AllIPs :
          /\ entries[ip].ok => entries'[ip].ok
          /\ entries'[ip] # entries[ip] => addLog'[ip] # addLog[ip]
          /\ \A t \in Callers :
               entries[ip].ok /\ call[t].pc = "idle" /\ call'[t].pc # "idle" => call'[t].ip # ip
       ]_vars

\* GetWithRDNS has returned the forward entry of an address for which the
\* reverse map holds another name.
C18_Witness ==
  /\ done.op = "GetWithRDNS" /\ done.fwd.ok /\ done.v = done.fwd.v
  /\ rdnsCache[done.ip].ok /\ rdnsCache[done.ip].v # <<>>
  /\ rdnsCache[done.ip].v # done.v

\* C19: a reverse lookup that fails makes GetWithRDNS return the empty
\* string and stores a negative entry for the address; every GetWithRDNS
\* call for the address that begins later (no forward entry) returns the
\* empty string and starts no lookup.
C19_NegativeCached ==
  /\ [](\A ip \in AllIPs : negative[ip] => lookups[ip] >= 1)
  /\ [][\A t \in Callers :
          /\ call[t].pc = "lookup" /\ call'[t].pc = "idle" /\ done'.v = <<>> =>
               rdnsCache'[call[t].ip] = Entry(<<>>)
          /\ call[t].pc # "idle" /\ call[t].neg =>
               /\ call'[t].pc # "lookup"
               /\ call'[t].pc = "idle" => done'.v = <<>> /\ ~done'.looked
       ]_vars

\* C20: Add is last-answer-wins: after any sequence of Adds, Get(ip) yields
\* the name of the most recent Add for ip with its trailing dot stripped
\* (nothing if there was none), whatever was added for other addresses.
C20_LastAnswerWins ==
  \A ip \in AllIPs :
    IF addLog[ip] = <<>>
      THEN ~Get(ip).ok
      ELSE Get(ip).ok /\ DotStripped(addLog[ip][Len(addLog[ip])], Get(ip).v)

\* A second Add for an address has replaced a different name, and Get has
\* returned the second name.
C20_Witness ==
  /\ Len(addLog[IpB]) = 2 /\ addLog[IpB][1] = NameB6 /\ addLog[IpB][2] = NameB
  /\ done.op = "Get" /\ done.ip = IpB /\ done.ok /\ done.v = NameB
  /\ done.added = Entry(NameB)

\* C21: the cache is safe under every interleaving of Add, Get, Size and
\* GetWithRDNS: a task reads a map only while it holds the read or the write
\* lock and writes one only while it holds the write lock, a map changes
\* only in such a write, and a task never holds the write lock together
\* with another reader or writer.
C21_LockDiscipline ==
  /\ [](/\ Cardinality(mu.w) <= 1
        /\ mu.w # {} => mu.r = {}
        /\ \A t \in Tasks :
             task[t].pc = "access" =>
               IF task[t].access = "write" THEN t \in mu.w ELSE Holds(t))
  /\ [][entries' # entries \/ rdnsCache' # rdnsCache =>
          \E t \in mu.w : task[t].pc = "access" /\ task'[t].pc = "release"]_vars

\* GetWithRDNS holds the write lock for its store while an Add and a Get of
\* two other tasks wait for the lock.
C21_Witness ==
  \E t \in mu.w :
    /\ task[t].pc = "access" /\ task[t].op = "GetWithRDNS"
    /\ \E u, v \in Tasks \ {t} :
         /\ task[u].pc = "acquire" /\ task[u].op = "Add"
         /\ task[v].pc = "acquire" /\ task[v].op = "Get"

\* ------------------------------------------------------------------- C22

\* The offsets of the runs of byte c in w.
RunStarts(w, c) == {BLen(SubSeq(w, 1, k - 1)) : k \in {i \in 1..Len(w) : w[i].c = c}}

\* The offsets at which the bytes h stand in direction d of the connection.
WirePos(d, h) ==
  IF h = <<>> THEN {}
  ELSE {o \in RunStarts(Wire(d), h[1].c) : Slice(Wire(d), o, o + BLen(h)) = h}

\* The head of a printed message, as the parser took it from the Buffer.
HeadOf(m) == Slice(took, m.start, m.start + m.used)

\* Message j of the output lies wholly before message k in direction d.
Precedes(d, j, k) ==
  LET Of(A, B) == /\ A # {} /\ B # {}
                  /\ \A a \in A, b \in B : a + out[j].used <= b
  IN Of(WirePos(d, HeadOf(out[j])), WirePos(d, HeadOf(out[k])))

\* C22: within one direction of a flow the messages are printed in the
\* order of their bytes in the reassembled stream: no message is printed
\* before one whose bytes lie wholly before its own.
C22_StreamOrder ==
  \A d \in Dirs : \A j, k \in 1..Len(out) : j < k => ~Precedes(d, k, j)

\* Two messages of one direction, from two segments, are both printed.
C22_Witness ==
  /\ Len(ranges.AB) >= 2
  /\ \E j, k \in 1..Len(out) : j < k /\ Precedes("AB", j, k)

\* ------------------------------------------------------------------- C23

\* C23: one parser task per flow and one message at a time. The stream
\* factory starts exactly one task, with the first segment of the flow; no
\* later segment starts another; the task reads its messages one after
\* another, each beginning where the head of the one before has ended.
C23_OneParser ==
  /\ runs <= 1
  /\ runs = 1 <=> stream # "none"
  /\ runs = 0 <=> pc = "idle"
  /\ \A j, k \in 1..Len(out) : j < k => out[j].start + out[j].used <= out[k].start
  /\ \A j \in 1..Len(out) : out[j].start <= msgStart /\ out[j].start + out[j].used <= pos

\* Segments of both directions have been read and two messages printed.
C23_Witness ==
  /\ runs = 1
  /\ \A d \in Dirs : seen[d] # {}
  /\ Len(out) >= 2

\* ------------------------------------------------------------------- C24

\* C24: the bytes of the two directions of a connection are kept apart: the
\* bytes passed to the Write of one Buffer are those of one direction only.
C24_DirectionsApart == \E d \in Dirs : handed = written[d]

\* ------------------------------------------------------------------- C25

\* The endpoint that sends the bytes of direction d.
SenderIP(d) == IF d = "AB" THEN Captures[cap].ip.A ELSE Captures[cap].ip.B
SenderPort(d) == IF d = "AB" THEN ClientPort ELSE Captures[cap].sport

\* C25: every message is printed with the endpoint that sent its bytes as
\* Source and the endpoint that received them as Destination.
C25_Endpoints ==
  \A k \in 1..Len(out) : \A d \in Dirs :
    WirePos(d, HeadOf(out[k])) # {} =>
      /\ out[k].srcIP = SenderIP(d) /\ out[k].srcPort = SenderPort(d)
      /\ out[k].dstIP = SenderIP(Rev(d)) /\ out[k].dstPort = SenderPort(Rev(d))

\* ------------------------------------------------------------------- C26

C27_ReverseFallback ==
  \A k \in 1..Len(out) : \A ip \in {out[k].srcIP, out[k].dstIP} :
    ~out[k].cache[ip].ok => lookups[ip] > 0 /\ rdnsCache[ip].ok

\* ------------------------------------------------------------------- C28

\* C28: a connection with one of the ports 22, 23, 25, 53, 110, 143, 993,
\* 995 at either end never reaches the reassembler: it gets no stream, no
\* parser task is started for it and none of its bytes is buffered.
C28_PortsFiltered ==
  {Captures[cap].cport, Captures[cap].sport} \cap NotHTTPPorts # {} =>
    stream = "none" /\ runs = 0 /\ pc = "idle" /\ handed = <<>>

\* ------------------------------------------------------------------- C29

\* The A and AAAA answers of m for the address ip, in the order of the
\* answer section.
AnswersFor(m, ip) == SelectSeq(m.answers, LAMBDA rr : rr.type \in {"A", "AAAA"} /\ rr.ip = ip)

\* C29: the forward entries change only when main, run with -dns, reads a DNS
\* response that unpacks and has a question, and then by one Add per A or
\* AAAA answer, in answer order: each address gets the owner name of its
\* last answer. Queries, CNAME answers, responses without question,
\* payloads that do not unpack, every packet of a run without -dns, and
\* every step of the parser leave the entries as they are.
C29_CacheFrame ==
  [][(entries' # entries \/ addLog' # addLog) =>
       /\ enableDNS
       /\ sent' = sent + 1
       /\ \E m \in Captures[cap].dns :
            /\ m.ok /\ m.response /\ m.questions > 0
            /\ \A ip \in AllIPs :
                 \E rs \in {AnswersFor(m, ip)} :
                   /\ addLog'[ip] = addLog[ip] \o [i \in 1..Len(rs) |-> rs[i].name]
                   /\ IF rs = <<>> THEN entries'[ip] = entries[ip]
                      ELSE /\ entries'[ip].ok
                           /\ DotStripped(rs[Len(rs)].name, entries'[ip].v)]_vars

\* The reply with a CNAME and three address answers has been read after the
\* other DNS packets: the two addresses have the names of their last answers.
C29_Witness ==
  /\ enableDNS
  /\ sent = 4
  /\ addLog[IpB] = <<NameB6, NameB>>
  /\ entries[IpB] = Entry(NameB)
  /\ addLog[IpB6] = <<NameB6>>
  /\ entries[IpB6].ok /\ ~EndsWithDot(entries[IpB6].v)

\* ------------------------------------------------------------------- C30

\* C30: every parser task terminates. Once started, run returns (unless the
\* process ends first); each pass of its loop that comes back to the Peek
\* has consumed bytes of the stream, a failed ReadResponse or ReadRequest
\* included; and it prints no more messages than it has consumed bytes.
C30_RunReturns ==
  /\ [](runs = 1 => <>(pc = "done" \/ mainPc = "done"))
  /\ [][pc \notin {"tls", "peek"} /\ pc' = "peek" => pos' > msgStart]_vars
  /\ [](Len(out) <= pos)

\* run has returned of itself after ReadResponse has failed twice, was
\* retried each time, and the response after the two bad lines was printed.
C30_Witness ==
  /\ pc = "done"
  /\ mainPc # "done"
  /\ kind = "response"
  /\ errs.malformed >= 2
  /\ Len(out) >= 1

\* ------------------------------------------------------------------- C31

\* C31: GetWithRDNS never holds the cache's lock while its reverse lookup is
\* in progress: a task inside net.LookupAddr holds neither the read nor the
\* write lock, and any other task waiting for the lock gets it as soon as no
\* third task holds it, whichever method and address its call is for.
C31_LookupUnlocked ==
  \A t \in Tasks :
    task[t].pc = "lookup" =>
      /\ ~Holds(t)
      /\ \A u \in Tasks \ {t} :
           task[u].pc = "acquire" /\ (\A v \in Tasks \ {t} : ~Holds(v)) =>
             ENABLED (Lock(u) \/ RLock(u))

\* While one task is inside the reverse lookup for an address, another has
\* taken the write lock and stored a name for the same address with Add, and
\* a third waits for the lock with a call for another address.
C31_Witness ==
  \E t, u, v \in Tasks :
    /\ task[t].pc = "lookup" /\ task[t].ip = IpB
    /\ u \in mu.w /\ task[u].op = "Add" /\ task[u].pc = "release" /\ task[u].ip = IpB
    /\ task[v].pc = "acquire" /\ task[v].ip = IpB6

\* ------------------------------------------------------------------- C32

\* Cache.Size: len(c.entries).
Size == Cardinality({ip \in AllIPs : entries[ip].ok})

\* The method the task that takes the step is in: the one it begins, or the
\* one it was in before the step.
Acting(t) == IF task[t].op = "none" THEN task'[t].op ELSE task[t].op

\* C32: each map of the cache is changed only by its own operation. A step
\* of Add changes at most the forward entry of its address and no reverse
\* entry; a step of GetWithRDNS changes at most the reverse entry of its
\* address and no forward entry; steps of Get and Size change neither map.
\* So Size never decreases, and no step of GetWithRDNS changes it.
C32_MapFrames ==
  [][/\ \A t \in Tasks :
          task'[t] # task[t] =>
            /\ Acting(t) \in {"Get", "Size"} =>
                 entries' = entries /\ rdnsCache' = rdnsCache
            /\ Acting(t) = "Add" =>
                 /\ rdnsCache' = rdnsCache
                 /\ \A ip \in AllIPs \ {task[t].ip} : entries'[ip] = entries[ip]
            /\ Acting(t) = "GetWithRDNS" =>
                 /\ entries' = entries
                 /\ Size' = Size
                 /\ \A ip \in AllIPs \ {task[t].ip} : rdnsCache'[ip] = rdnsCache[ip]
     /\ entries' # entries \/ rdnsCache' # rdnsCache => task' # task
     /\ Size' >= Size]_vars

\* GetWithRDNS has stored the reverse name of an address, Add has then
\* stored a forward name for the same address, and a Size call stands
\* between its len and its RUnlock: one forward entry, one reverse entry.
C32_Witness ==
  /\ rdnsCache[IpB].ok /\ entries[IpB].ok
  /\ ~rdnsCache[IpB6].ok /\ ~entries[IpB6].ok
  /\ Size = 1
  /\ \E t \in Tasks : task[t].op = "Size" /\ task[t].pc = "release"

\* ------------------------------------------------------------------- C33

\* C33: a parser task waits for its first bytes only during its start-up
\* window: it leaves the first loop in the end, bytes or none (unless the
\* process ends first); if it then finds the buffer empty it returns, and
\* only then with this return; from there on it stays returned, has read
\* nothing and prints nothing, and every byte handed to the buffer's Write,
\* before or after, lies unread in the buffer or in the Write in progress.
C33_StartupWindow ==
  /\ (pc = "wait1") ~> (pc # "wait1" \/ mainPc = "done")
  /\ [][pc = "check" /\ pc' # "check" => (ret' = "empty" <=> 0 \in LenViews)]_vars
  /\ [][ret = "empty" => ret' = "empty"]_vars
  /\ [](ret = "empty" =>
          /\ pc = "done" /\ runs = 1
          /\ out = <<>> /\ took = <<>> /\ rd = <<>>
          /\ Cat(buf, wr.data) = handed)

\* run has returned on the empty buffer, the whole of one direction's bytes
\* was written to the buffer, main has flushed and exited, and nothing was
\* printed.
C33_Witness ==
  /\ ret = "empty" /\ mainPc = "done"
  /\ \E d \in Dirs : Wire(d) # <<>> /\ written[d] = Wire(d)
  /\ buf = handed /\ handed # <<>>
  /\ out = <<>>

====
